---------------------------- MODULE Spec2Model ----------------------------
(***************************************************************************)
(* A model of the qBittorrent manager daemon: the orchestrator of          *)
(* service.py (queues, worker pools, shutdown), the checkpoint code of     *)
(* persistence.py, and the Relocator of core.py.                           *)
(***************************************************************************)
EXTENDS Integers, Sequences, FiniteSets, TLC

(***************************************************************************)
(* Bounds of the model.                                                    *)
(***************************************************************************)
\* how many uuid4 values (queue ids, process ids, batch ids) one run draws
MaxIds == 4
\* how many one-second clock ticks one run takes
MaxTicks == 1
\* how many whole-day clock jumps one run takes
MaxDays == 1
\* how many space-reclamation passes one process lifetime submits
MaxSpaceTasks == 2
\* how many pieces json.dump writes a checkpoint in
NumChunks == 2
\* how many copy operations one run enqueues
MaxCopyOps == 2
\* how many times one run starts the process
MaxBoots == 2
\* how many POST /state/save requests one run makes
MaxSaves == 1
\* how many symbolic links into the cache point at one torrent
MaxLinks == 2
\* the MAX_CONCURRENT_PROCESSES the service is configured with
MaxWorkers == 2
\* how many requests with the key one run makes
MaxRequests == 3

(***************************************************************************)
(* Program constants.                                                      *)
(***************************************************************************)
MAX_CONCURRENT_COPY_OPERATIONS == 1
KEEP_COMPLETED_PROCESSES == 10
KEEP_COMPLETED_COPIES == 20
RESTORED_PRIORITY == 10
MAX_AGE_HOURS == 24
SECONDS_PER_HOUR == 3600

(***************************************************************************)
(* Strings are sequences of one-character strings, so that BTIH can look   *)
(* at their length and characters.                                         *)
(***************************************************************************)
Rep(c, n) == [i \in 1..n |-> c]

HexChars ==
    {"0", "1", "2", "3", "4", "5", "6", "7", "8", "9",
     "a", "b", "c", "d", "e", "f", "A", "B", "C", "D", "E", "F"}

\* Python's None where a string is expected: a value that is no string
None == <<"<None>">>

\* a validator that looks at the length only
LengthOnlyBTIH(value) ==
    IF value = None THEN "TypeError"
    ELSE IF Len(value) \in {32, 40, 64} THEN "ok"
    ELSE "ValueError"

\* classes.py BTIH.__new__: "ok", or the exception it raises
BTIH(value) ==
    IF value = None THEN "TypeError"
    ELSE IF Len(value) \in {32, 40, 64}
              /\ \A i \in 1..Len(value) : value[i] \in HexChars
         THEN "ok"
         ELSE "ValueError"

HashA == Rep("a", 40)
HashB == Rep("F", 32)
BadLenHash == Rep("a", 39)
EmptyStr == << >>

\* a dict is a function from keys to values; dict.get(key, default)
Get(d, k, default) == IF k \in DOMAIN d THEN d[k] ELSE default

(***************************************************************************)
(* classes.py: TorrentInfo and its constructors.  A constructor yields     *)
(* [ok |-> TRUE, val |-> descriptor] or [ok |-> FALSE, err |-> exception]. *)
(***************************************************************************)
Ok(v) == [ok |-> TRUE, val |-> v]
Raise(e) == [ok |-> FALSE, err |-> e]

TorrentInfo(h, n, cp, sz, nf, cat, h2) ==
    [hash_v1 |-> h, name |-> n, content_path |-> cp, size |-> sz,
     num_files |-> nf, category |-> cat, hash_v2 |-> h2]

\* the hash_v2 argument of from_qbittorrent_params: used when it is truthy,
\* not a placeholder and at least 32 characters long
UsesHashV2(d) ==
    LET v == Get(d, "hash_v2", None)
    IN  v # None /\ v # EmptyStr /\ Len(v) >= 32

from_qbittorrent_params(params) ==
    LET h == Get(params, "hash", Get(params, "hash_v1", EmptyStr))
    IN  IF BTIH(h) # "ok" THEN Raise(BTIH(h))
        ELSE IF UsesHashV2(params) /\ BTIH(params["hash_v2"]) # "ok"
             THEN Raise(BTIH(params["hash_v2"]))
        ELSE Ok(TorrentInfo(h, Get(params, "name", ""),
                            Get(params, "content_path", ""),
                            Get(params, "size", 0),
                            Get(params, "num_files", 1),
                            Get(params, "category", ""),
                            IF UsesHashV2(params) THEN params["hash_v2"] ELSE None))

from_hash_only(torrent_hash) ==
    IF BTIH(torrent_hash) # "ok" THEN Raise(BTIH(torrent_hash))
    ELSE Ok(TorrentInfo(torrent_hash, "", "", 0, 1, "", None))

\* TorrentInfo.to_dict: the JSON object of a descriptor
to_dict(t) ==
    [hash_v1 |-> t.hash_v1, name |-> t.name, content_path |-> t.content_path,
     size |-> t.size, num_files |-> t.num_files, category |-> t.category,
     hash_v2 |-> IF t.hash_v2 # None /\ t.hash_v2 # EmptyStr
                 THEN t.hash_v2 ELSE None]

\* TorrentInfo.from_dict: data['hash_v1'] raises KeyError when absent
from_dict(data) ==
    IF "hash_v1" \notin DOMAIN data THEN Raise("KeyError")
    ELSE IF BTIH(data["hash_v1"]) # "ok" THEN Raise(BTIH(data["hash_v1"]))
    ELSE LET v2 == Get(data, "hash_v2", None)
             truthy == v2 # None /\ v2 # EmptyStr
         IN  IF truthy /\ BTIH(v2) # "ok" THEN Raise(BTIH(v2))
             ELSE Ok(TorrentInfo(data["hash_v1"], Get(data, "name", ""),
                                 Get(data, "content_path", ""),
                                 Get(data, "size", 0),
                                 Get(data, "num_files", 1),
                                 Get(data, "category", ""),
                                 IF truthy THEN v2 ELSE None))

\* str(uuid.uuid4()): the n-th value drawn, and persistence.py's
\* f"restored-{id}" of one
Uuid(n) == <<"", n>>
RestoredId(id) == <<"restored-", id[2]>>

QueueItem(id, torrent, queued_time, priority) ==
    [id |-> id, torrent |-> torrent, queued_time |-> queued_time,
     priority |-> priority]

ProcessInfo(id, torrent_hash, start_time, status) ==
    [id |-> id, torrent_hash |-> torrent_hash, start_time |-> start_time,
     status |-> status]

(***************************************************************************)
(* State.                                                                  *)
(***************************************************************************)
VARIABLES
    max_processes,            \* config.MAX_CONCURRENT_PROCESSES of this installation
    phase,                    \* where the process is in its life
    process_queue,            \* orchestrator.process_queue
    running_processes,        \* orchestrator.running_processes, in dict order
    copy_queue,               \* orchestrator.copy_queue
    running_copy_operations,  \* orchestrator.running_copy_operations
    exec_queue,               \* work queue of orchestrator.executor
    exec_running,             \* what the threads of orchestrator.executor run
    shutdown_in_progress,     \* orchestrator._shutdown_in_progress
    stats,                    \* orchestrator.stats (the counters)
    now,                      \* time.time(), in seconds
    nextId,                   \* the next uuid4
    state_file,               \* orchestrator_state.json
    temp_file,                \* orchestrator_state.json.tmp
    save_job,                 \* the save_orchestrator_state call in progress
    loaded,                   \* what load_orchestrator_state returned
    reply,                    \* the answer a handler gives in this step, if any
    popLog,                   \* history: the items popped, in order
    saved,                    \* history: the orchestrator state last saved,
                              \* and how many saves were requested
    boots,                    \* history: how often the process was started
    reloc,                    \* one Relocator run and the disk it works on
    space,                    \* one manage_ssd_space pass
    fin,                      \* the Finisher runs on one torrent
    http,                     \* the request the HTTP server is serving
    qbit_client,              \* orchestrator.qbit_client and its session
    shutdown_log              \* history: the steps of the last shutdown() run

orchVars ==
    <<max_processes, phase, process_queue, running_processes, copy_queue,
      running_copy_operations, exec_queue, exec_running, shutdown_in_progress,
      stats, now, nextId, state_file, temp_file, save_job, loaded, reply,
      popLog, saved, boots, http, qbit_client, shutdown_log>>

vars == <<orchVars, reloc, space, fin>>

DAY == MAX_AGE_HOURS * SECONDS_PER_HOUR

(***************************************************************************)
(* service.py: the dispatcher.  The orchestrator fields one handler works  *)
(* on travel as a record o = [q, rp, eq, ids, log].                        *)
(***************************************************************************)

\* a sort that puts the lower priority first
KeyLessAscending(a, b) ==
    \/ a.priority < b.priority
    \/ (a.priority = b.priority /\ a.queued_time < b.queued_time)

\* the sort key of add_to_queue and restore: (-priority, queued_time)
KeyLess(a, b) ==
    \/ -a.priority < -b.priority
    \/ (a.priority = b.priority /\ a.queued_time < b.queued_time)

KeyLE(a, b) == ~KeyLess(b, a)

\* one step of a stable insertion sort: x goes behind every item whose key
\* is not greater than its own
RECURSIVE InsertSorted(_, _)
InsertSorted(s, x) ==
    IF s = << >> THEN <<x>>
    ELSE IF KeyLess(x, Head(s)) THEN <<x>> \o s
    ELSE <<Head(s)>> \o InsertSorted(Tail(s), x)

RECURSIVE SortFrom(_, _)
SortFrom(sorted, rest) ==
    IF rest = << >> THEN sorted
    ELSE SortFrom(InsertSorted(sorted, Head(rest)), Tail(rest))

\* list.sort(key=lambda x: (-x.priority, x.queued_time)): stable
SortQueue(q) == SortFrom(<< >>, q)

\* the priority of a request body that is no number (a JSON string, null or
\* list): the handler hands data.get('priority', 0) on as it is.  It stands
\* here as a number that no request of the model carries as a priority.
NonNumber == -1

IsNumber(priority) == priority # NonNumber

\* the key function computes -x.priority for every item of the list before
\* anything is moved, and unary minus raises TypeError on what is no number
Sortable(q) == \A i \in DOMAIN q : IsNumber(q[i].priority)

IsSorted(q) == \A i, j \in 1..Len(q) : i < j => KeyLE(q[i], q[j])

\* a capacity test that lets one job too many in
HasCapacityOffByOne(rp) == Len(rp) <= max_processes

\* the capacity test of _process_queue: every record of the map counts
HasCapacity(rp) == Len(rp) < max_processes

SpaceTask == [kind |-> "space", pid |-> Uuid(0)]
TorrentTask(pid) == [kind |-> "torrent", pid |-> pid]

\* _trigger_space_management: one more task for the torrent pool
trigger_space_management_(o) == [o EXCEPT !.eq = Append(@, SpaceTask)]

\* _start_torrent_processing: a RUNNING record and a task for the pool
start_torrent_processing(o, item, t) ==
    [o EXCEPT !.rp = Append(@, ProcessInfo(Uuid(o.ids), item.torrent.hash_v1, t, "running")),
              !.eq = Append(@, TorrentTask(Uuid(o.ids))),
              !.ids = @ + 1]

RECURSIVE process_queue_loop(_, _)
process_queue_loop(o, t) ==
    IF HasCapacity(o.rp) /\ o.q # << >>
    THEN LET item == Head(o.q)
             popped == [o EXCEPT !.q = Tail(@),
                                 !.log = Append(@, [id |-> item.id,
                                                    priority |-> item.priority,
                                                    queued_time |-> item.queued_time,
                                                    hash |-> item.torrent.hash_v1,
                                                    pending |-> {o.q[i].id : i \in 2..Len(o.q)},
                                                    waiting |-> {[priority |-> o.q[i].priority,
                                                                  queued_time |-> o.q[i].queued_time] :
                                                                      i \in 2..Len(o.q)}])]
         IN  process_queue_loop(start_torrent_processing(popped, item, t), t)
    ELSE o

\* _process_queue
process_queue_(o, t) ==
    LET o1 == process_queue_loop(o, t)
    IN  IF o1.q = << >> THEN trigger_space_management_(o1) ELSE o1

Orch == [q |-> process_queue, rp |-> running_processes, eq |-> exec_queue,
         ids |-> nextId, log |-> popLog]

\* the bounds of the model on what a handler leaves behind
WithinBounds(o) ==
    /\ o.ids <= MaxIds + 1
    /\ Len(SelectSeq(o.eq, LAMBDA task : task.kind = "space"))
         + exec_running.space + stats.space_management_runs <= MaxSpaceTasks

SetOrch(o) ==
    /\ WithinBounds(o)
    /\ process_queue' = o.q
    /\ running_processes' = o.rp
    /\ exec_queue' = o.eq
    /\ nextId' = o.ids
    /\ popLog' = o.log

\* an orchestrator that takes new work whatever the flag says
NeverRejects(flag) == FALSE

\* the test add_to_queue and add_copy_operations make of the shutdown flag
RejectsNewWork(flag) == flag

\* add_to_queue: [o |-> the orchestrator after the call, ret |-> the queue id
\* returned or the exception raised].  The item is appended before the sort,
\* so a sort that raises leaves it in the queue, and _process_queue is not
\* reached.
add_to_queue(o, flag, torrent_hash, torrent_params, priority, t) ==
    IF RejectsNewWork(flag) THEN [o |-> o, ret |-> Raise("RuntimeError")]
    ELSE LET info == IF DOMAIN torrent_params # {}
                     THEN from_qbittorrent_params(torrent_params)
                     ELSE from_hash_only(torrent_hash)
         IN  IF ~info.ok THEN [o |-> o, ret |-> Raise(info.err)]
             ELSE LET item == QueueItem(Uuid(o.ids), info.val, t, priority)
                      appended == [o EXCEPT !.q = Append(@, item), !.ids = @ + 1]
                      o1 == [appended EXCEPT !.q = SortQueue(@)]
                  IN  IF ~Sortable(appended.q)
                      THEN [o |-> appended, ret |-> Raise("TypeError")]
                      ELSE [o |-> process_queue_(o1, t), ret |-> Ok(item.id)]

(***************************************************************************)
(* The bodies POSTed to /notify/torrent-finished.                          *)
(***************************************************************************)
FullParams(h) ==
    [hash |-> h, name |-> "m.mkv", content_path |-> "/c/r/radarr/m.mkv",
     size |-> 1, num_files |-> 1, category |-> "radarr",
     hash_v2 |-> Rep("b", 64)]

NotifyData ==
    {[hash |-> HashA],
     [hash |-> HashB, priority |-> 20],
     [hash |-> BadLenHash]}

NotifyBodies == {[json |-> TRUE, data |-> d] : d \in NotifyData}

\* the bodies posted in the runs that follow the checkpoint
CheckpointedBodies ==
    {[json |-> TRUE, data |-> d] :
        d \in {[hash |-> HashB, priority |-> 20],
               [hash |-> HashA, params |-> FullParams(HashA)]}}

\* no Relocator run
NoRun == [pc |-> "none"]

\* no reclamation pass
NoPass == [pc |-> "idle"]

\* no Finisher run
NoFinisher == [pc |-> "idle", runs |-> << >>]

\* the HTTP server serves no request; a handler that answers leaves it so
NoRequest == [pc |-> "idle"]

\* no shutdown() run yet: steps are the steps a run has performed, in order,
\* error the exception it left with, had_client whether a session with the
\* torrent client was open when it began, finished the process ids whose
\* worker returned after the run had written its checkpoint
NoShutdown ==
    [steps |-> << >>, ended |-> FALSE, error |-> "none", had_client |-> FALSE,
     finished |-> {}]

HasStep(log, step) == \E i \in DOMAIN log.steps : log.steps[i] = step

NoId == Uuid(0)
Reply(op, status, id, text) == [op |-> op, status |-> status, id |-> id, text |-> text]
NoReply == Reply("none", 0, NoId, "")

Serving == phase \in {"serving", "sd_save", "sd_wait"}

\* nothing else runs while a thread is inside save_orchestrator_state, which
\* holds the orchestrator lock
LockFree == save_job = "idle"

\* POST /notify/torrent-finished
notify_torrent_finished(body) ==
    /\ Serving /\ LockFree
    /\ IF ~body.json
       THEN /\ reply' = Reply("notify", 500, NoId, "JSONDecodeError")
            /\ UNCHANGED <<process_queue, running_processes, exec_queue, nextId, popLog>>
       ELSE LET torrent_hash == Get(body.data, "hash", None)
            IN  IF torrent_hash = None \/ torrent_hash = EmptyStr
                THEN /\ reply' = Reply("notify", 400, NoId, "Missing torrent hash")
                     /\ UNCHANGED <<process_queue, running_processes, exec_queue, nextId, popLog>>
                ELSE IF BTIH(torrent_hash) # "ok"
                THEN /\ reply' = Reply("notify", 400, NoId, "Invalid torrent hash")
                     /\ UNCHANGED <<process_queue, running_processes, exec_queue, nextId, popLog>>
                ELSE LET r == add_to_queue(Orch, shutdown_in_progress, torrent_hash,
                                           Get(body.data, "params", << >>),
                                           Get(body.data, "priority", 0), now)
                     IN  /\ SetOrch(r.o)
                         /\ reply' = IF r.ret.ok THEN Reply("notify", 200, r.ret.val, "queued")
                                     ELSE Reply("notify", 500, NoId, r.ret.err)
    /\ http' = NoRequest
    /\ UNCHANGED <<phase, copy_queue, running_copy_operations, exec_running,
                   shutdown_in_progress, stats, now, state_file, temp_file,
                   save_job, loaded, saved, boots, reloc, space, fin,
                   qbit_client, shutdown_log, max_processes>>

\* POST /space-management/trigger
trigger_space_management ==
    /\ Serving /\ LockFree
    /\ SetOrch(trigger_space_management_(Orch))
    /\ reply' = Reply("space", 200, NoId, "triggered")
    /\ http' = NoRequest
    /\ UNCHANGED <<phase, copy_queue, running_copy_operations, exec_running,
                   shutdown_in_progress, stats, now, state_file, temp_file,
                   save_job, loaded, saved, boots, reloc, space, fin,
                   qbit_client, shutdown_log, max_processes>>

\* POST /queue/clear
clear_queue ==
    /\ Serving /\ LockFree
    /\ process_queue' = << >>
    /\ reply' = Reply("clear", 200, NoId, "cleared")
    /\ http' = NoRequest
    /\ UNCHANGED <<phase, running_processes, copy_queue, running_copy_operations,
                   exec_queue, exec_running, shutdown_in_progress, stats, now,
                   nextId, state_file, temp_file, save_job, loaded, popLog,
                   saved, boots, reloc, space, fin, qbit_client, shutdown_log,
                   max_processes>>

(***************************************************************************)
(* service.py: the middleware every request passes before its handler.     *)
(* A request is [path, header, query, body]: header is the value of        *)
(* X-API-Key and query that of api_key, Absent when the request has none.  *)
(***************************************************************************)
\* config.HTTP_API_KEY of this installation (validate_config wants one)
HTTP_API_KEY == "secret"

\* what dict.get returns for a key that is not there (a None among strings)
Absent == "<absent>"

Request(path, header, query, body) ==
    [path |-> path, header |-> header, query |-> query, body |-> body]

\* a or b of Python, None and the empty string being the falsy values
Or(a, b) == IF a # Absent /\ a # "" THEN a ELSE b

\* line 576: request.headers.get('X-API-Key') or request.query.get('api_key')
api_key(request) == Or(request.header, request.query)

\* the counter of the middleware
CountRequest(st) == [st EXCEPT !.api_requests = @ + 1]

\* auth_middleware up to the call of the handler: /health is answered by
\* health_check at once, a request without the key is answered 401, any
\* other is counted and handed to its handler
auth_middleware(request) ==
    /\ phase = "serving" /\ LockFree
    /\ http.pc = "idle"
    /\ IF request.path = "/health"
       THEN /\ reply' = Reply("health", 200, NoId, "healthy")
            /\ UNCHANGED <<http, stats>>
       ELSE IF api_key(request) # HTTP_API_KEY
       THEN /\ reply' = Reply("auth", 401, NoId, "Invalid or missing API key")
            /\ UNCHANGED <<http, stats>>
       ELSE /\ stats.api_requests < MaxRequests
            /\ stats' = CountRequest(stats)
            /\ http' = [pc |-> "admitted", path |-> request.path,
                        body |-> request.body]
            /\ reply' = NoReply
    /\ UNCHANGED <<phase, process_queue, running_processes, copy_queue,
                   running_copy_operations, exec_queue, exec_running,
                   shutdown_in_progress, now, nextId, state_file, temp_file,
                   save_job, loaded, popLog, saved, boots, reloc, space, fin,
                   qbit_client, shutdown_log, max_processes>>

\* the router has handed the admitted request to the handler of this path
Admitted(path) == http.pc = "admitted" /\ http.path = path

(***************************************************************************)
(* service.py: the torrent pool.  A thread of the executor takes the task  *)
(* at the head of the work queue; the done-callback runs under the lock.   *)
(***************************************************************************)
\* orchestrator.get_qbit_client(): the session is opened at the first call
\* and kept (the torrent client is taken to be reachable)
get_qbit_client == "connected"

BusyThreads == Cardinality(exec_running.torrents) + exec_running.space

executor_thread_takes_task ==
    /\ phase # "down" /\ LockFree
    /\ exec_queue # << >>
    /\ BusyThreads < max_processes
    /\ LET task == Head(exec_queue)
       IN  exec_running' =
               IF task.kind = "space"
               THEN [exec_running EXCEPT !.space = @ + 1]
               ELSE [exec_running EXCEPT !.torrents = @ \cup {task.pid}]
    /\ exec_queue' = Tail(exec_queue)
    /\ qbit_client' = get_qbit_client
    /\ reply' = NoReply
    /\ UNCHANGED <<phase, process_queue, running_processes, copy_queue,
                   running_copy_operations, shutdown_in_progress, stats, now,
                   nextId, state_file, temp_file, save_job, loaded, popLog,
                   saved, boots, reloc, space, fin, http, shutdown_log,
                   max_processes>>

IsDone(p) == p.status \in {"completed", "failed"}

\* sorted(completed, key=start_time)[:-keep]: the ids of all but the `keep`
\* youngest finished records (the sort is stable)
OldestCompleted(rp, keep) ==
    LET done == SelectSeq(rp, IsDone)
        Before(i, j) == \/ done[i].start_time < done[j].start_time
                        \/ (done[i].start_time = done[j].start_time /\ i < j)
        Rank(i) == Cardinality({j \in 1..Len(done) : Before(j, i)})
    IN  IF Len(done) > keep
        THEN {done[i].id : i \in {k \in 1..Len(done) : Rank(k) < Len(done) - keep}}
        ELSE {}

\* _on_process_complete, without the dispatch it ends with
mark_process_complete(rp, pid, success) ==
    LET marked == [i \in 1..Len(rp) |->
                      IF rp[i].id = pid
                      THEN [rp[i] EXCEPT !.status = IF success THEN "completed" ELSE "failed"]
                      ELSE rp[i]]
        old == OldestCompleted(marked, KEEP_COMPLETED_PROCESSES)
    IN  SelectSeq(marked, LAMBDA p : p.id \notin old)

\* a torrent worker returns {'success': ...} and _on_process_complete runs
torrent_worker_done(pid, success) ==
    /\ phase # "down" /\ LockFree
    /\ pid \in exec_running.torrents
    /\ exec_running' = [exec_running EXCEPT !.torrents = @ \ {pid}]
    /\ IF \E i \in 1..Len(running_processes) : running_processes[i].id = pid
       THEN /\ SetOrch(process_queue_(
                   [Orch EXCEPT !.rp = mark_process_complete(@, pid, success)], now))
            /\ stats' = IF success
                        THEN [stats EXCEPT !.torrents_processed = @ + 1]
                        ELSE stats
       ELSE UNCHANGED <<process_queue, running_processes, exec_queue, nextId,
                        popLog, stats>>
    /\ shutdown_log' =
         IF phase = "sd_wait" /\ HasStep(shutdown_log, "checkpoint")
         THEN [shutdown_log EXCEPT !.finished = @ \cup {pid}]
         ELSE shutdown_log
    /\ reply' = NoReply
    /\ UNCHANGED <<phase, copy_queue, running_copy_operations,
                   shutdown_in_progress, now, state_file, temp_file, save_job,
                   loaded, saved, boots, reloc, space, fin, http, qbit_client,
                   max_processes>>

\* run_space_management returns: manage_ssd_space came back (ok) or raised
space_management_done(ok) ==
    /\ phase # "down" /\ LockFree
    /\ exec_running.space > 0
    /\ exec_running' = [exec_running EXCEPT !.space = @ - 1]
    /\ stats' = IF ok THEN [stats EXCEPT !.space_management_runs = @ + 1] ELSE stats
    /\ reply' = NoReply
    /\ UNCHANGED <<phase, process_queue, running_processes, copy_queue,
                   running_copy_operations, exec_queue, shutdown_in_progress,
                   now, nextId, state_file, temp_file, save_job, loaded, popLog, saved, boots, reloc, space, fin, http, qbit_client,
                   shutdown_log, max_processes>>

(***************************************************************************)
(* service.py: the copy queue.                                             *)
(***************************************************************************)
CopyHasCapacity(rco) == Len(rco) < MAX_CONCURRENT_COPY_OPERATIONS

\* _process_copy_queue with _start_copy_operation: c = [q, rco]
RECURSIVE process_copy_queue_(_, _)
process_copy_queue_(c, t) ==
    IF CopyHasCapacity(c.rco) /\ c.q # << >>
    THEN LET op == Head(c.q)
         IN  process_copy_queue_(
                 [q |-> Tail(c.q),
                  rco |-> Append(c.rco, [id |-> op.id, batch_id |-> op.batch_id,
                                         torrent_hash |-> op.hash,
                                         start_time |-> t, status |-> "running"])], t)
    ELSE c

\* the loop of add_copy_operations: ids follow the batch id
RECURSIVE stamp_copy_operations(_, _, _, _)
stamp_copy_operations(list, batch_id, first, t) ==
    IF list = << >> THEN << >>
    ELSE <<[id |-> Uuid(first), batch_id |-> batch_id, hash |-> Head(list),
            queued_time |-> t]>>
         \o stamp_copy_operations(Tail(list), batch_id, first + 1, t)

CopyLists == {<<HashA>>, <<HashA, HashB>>}

\* add_copy_operations(copy_operations_list): the flag is tested first, then
\* the batch is stamped, queued and dispatched, and its id returned
add_copy_operations(list) ==
    /\ Serving /\ LockFree
    /\ IF RejectsNewWork(shutdown_in_progress)
       THEN /\ reply' = Reply("add_copy_operations", 0, NoId, "RuntimeError")
            /\ UNCHANGED <<copy_queue, running_copy_operations, nextId>>
       ELSE LET batch_id == Uuid(nextId)
                ops == stamp_copy_operations(list, batch_id, nextId + 1, now)
                c == process_copy_queue_([q |-> copy_queue \o ops,
                                          rco |-> running_copy_operations], now)
            IN  /\ nextId + Len(list) <= MaxIds
                /\ Len(copy_queue) + Len(running_copy_operations) + Len(list) <= MaxCopyOps
                /\ nextId' = nextId + 1 + Len(list)
                /\ copy_queue' = c.q
                /\ running_copy_operations' = c.rco
                /\ reply' = Reply("add_copy_operations", 0, batch_id, "batch_id")
    /\ UNCHANGED <<phase, process_queue, running_processes, exec_queue,
                   exec_running, shutdown_in_progress, stats, now, state_file,
                   temp_file, save_job, loaded, popLog, saved, boots, reloc,
                   space, fin, http, qbit_client, shutdown_log, max_processes>>

\* tags.py line 82: def tag_existing_torrents_by_location(client,
\* dry_run=False).  A call that names a parameter the function does not have
\* raises TypeError before the body runs; one that does not returns the
\* summary of the run, which has no key 'copy_operations_list'
tag_existing_torrents_by_location(keywords) ==
    IF keywords \subseteq {"client", "dry_run"} THEN "summary" ELSE "TypeError"

\* POST /tags/existing, with the torrents of the cache that have a category
\* and no bulk copy in list: the session is opened, the reconciliation is
\* called with dry_run and async_copies=True, and the exception of that call
\* is answered as 500; add_copy_operations is not reached
tag_existing_endpoint(dry_run, list) ==
    /\ Serving /\ LockFree
    /\ qbit_client' = get_qbit_client
    /\ LET result == tag_existing_torrents_by_location({"client", "dry_run", "async_copies"})
       IN  reply' = IF result = "TypeError"
                    THEN Reply("tags", 500, NoId, "TypeError")
                    ELSE Reply("tags", 200, NoId, "success")
    /\ http' = NoRequest
    /\ UNCHANGED <<phase, process_queue, running_processes, copy_queue,
                   running_copy_operations, exec_queue, exec_running,
                   shutdown_in_progress, stats, now, nextId, state_file,
                   temp_file, save_job, loaded, popLog, saved, boots, reloc,
                   space, fin, shutdown_log, max_processes>>

mark_copy_complete(rco, copy_id, success) ==
    LET marked == [i \in 1..Len(rco) |->
                      IF rco[i].id = copy_id
                      THEN [rco[i] EXCEPT !.status = IF success THEN "completed" ELSE "failed"]
                      ELSE rco[i]]
        old == OldestCompleted(marked, KEEP_COMPLETED_COPIES)
    IN  SelectSeq(marked, LAMBDA p : p.id \notin old)

\* a copy worker returns and _on_copy_complete runs
copy_worker_done(copy_id, success) ==
    /\ phase # "down" /\ LockFree
    /\ \E i \in 1..Len(running_copy_operations) :
          /\ running_copy_operations[i].id = copy_id
          /\ running_copy_operations[i].status = "running"
    /\ LET c == process_copy_queue_(
                    [q |-> copy_queue,
                     rco |-> mark_copy_complete(running_copy_operations, copy_id, success)],
                    now)
       IN  /\ copy_queue' = c.q
           /\ running_copy_operations' = c.rco
    /\ stats' = IF success
                THEN [stats EXCEPT !.copy_operations_completed = @ + 1]
                ELSE [stats EXCEPT !.copy_operations_failed = @ + 1]
    /\ reply' = NoReply
    /\ UNCHANGED <<phase, process_queue, running_processes, exec_queue,
                   exec_running, shutdown_in_progress, now, nextId, state_file,
                   temp_file, save_job, loaded, popLog, saved, boots, reloc, space, fin, http, qbit_client,
                   shutdown_log, max_processes>>

(***************************************************************************)
(* persistence.py: the checkpoint.  A file is absent, or holds the JSON    *)
(* text of a checkpoint of which `written` of NumChunks pieces are there.  *)
(***************************************************************************)
NoFile == [exists |-> FALSE]
File(data, written) == [exists |-> TRUE, data |-> data, written |-> written]
Complete(f) == f.exists /\ f.written = NumChunks

PersistedQueueItem(item) ==
    [id |-> item.id, torrent_data |-> to_dict(item.torrent),
     queued_time |-> item.queued_time, priority |-> item.priority]

PersistedProcessInfo(p) ==
    [id |-> p.id, torrent_hash |-> p.torrent_hash, start_time |-> p.start_time,
     status |-> p.status]

\* a save that persists the finished records too
PersistsEveryRecord(p) == TRUE

\* which records save_orchestrator_state persists
IsPersisted(p) == p.status = "running"

\* the state object save_orchestrator_state builds under the lock
ServiceState(q, rp, st, t) ==
    [queue_items |-> [i \in 1..Len(q) |-> PersistedQueueItem(q[i])],
     running_processes |->
         LET run == SelectSeq(rp, IsPersisted)
         IN  [i \in 1..Len(run) |-> PersistedProcessInfo(run[i])],
     statistics |-> st,
     shutdown_time |-> t,
     version |-> "1.0"]

NoState == [ok |-> FALSE]

\* a staleness test that turns a checkpoint away at 24 hours sharp
TooOldAtADay(shutdown_time, t) == t - shutdown_time >= MAX_AGE_HOURS * SECONDS_PER_HOUR

\* the staleness test of load_orchestrator_state:
\* (time.time() - shutdown_time) / 3600 > 24
TooOld(shutdown_time, t) == t - shutdown_time > MAX_AGE_HOURS * SECONDS_PER_HOUR

\* load_orchestrator_state: NoState is its None
load_orchestrator_state(f, t) ==
    IF ~f.exists THEN NoState
    ELSE IF f.written < NumChunks THEN NoState       \* json.load raises
    ELSE IF Get(f.data, "version", "1.0") # "1.0" THEN NoState
    ELSE IF TooOld(Get(f.data, "shutdown_time", 0), t) THEN NoState
    ELSE [ok |-> TRUE,
          queue_items |-> Get(f.data, "queue_items", << >>),
          running_processes |-> Get(f.data, "running_processes", << >>),
          statistics |-> Get(f.data, "statistics", << >>),
          shutdown_time |-> Get(f.data, "shutdown_time", 0)]

\* the first loop of restore_orchestrator_state: [q, ok]; from_dict may raise
RECURSIVE restore_queue_items(_, _)
restore_queue_items(items, q) ==
    IF items = << >> THEN [q |-> q, ok |-> TRUE]
    ELSE LET info == from_dict(Head(items).torrent_data)
         IN  IF ~info.ok THEN [q |-> q, ok |-> FALSE]
             ELSE restore_queue_items(
                      Tail(items),
                      Append(q, QueueItem(Head(items).id, info.val,
                                          Head(items).queued_time,
                                          Head(items).priority)))

\* the second loop: interrupted processes come back as hash-only items
RECURSIVE requeue_interrupted(_, _, _)
requeue_interrupted(procs, q, t) ==
    IF procs = << >> THEN [q |-> q, ok |-> TRUE]
    ELSE LET info == from_hash_only(Head(procs).torrent_hash)
         IN  IF ~info.ok THEN [q |-> q, ok |-> FALSE]
             ELSE requeue_interrupted(
                      Tail(procs),
                      Append(q, QueueItem(RestoredId(Head(procs).id), info.val, t,
                                          RESTORED_PRIORITY)),
                      t)

\* restore_orchestrator_state: an exception ends it where it is raised
restore_orchestrator_state(q, st, state, t) ==
    LET r1 == restore_queue_items(state.queue_items, q)
        r2 == requeue_interrupted(state.running_processes, r1.q, t)
    IN  IF ~r1.ok THEN [q |-> r1.q, stats |-> st, ok |-> FALSE]
        ELSE IF ~r2.ok THEN [q |-> r2.q, stats |-> st, ok |-> FALSE]
        ELSE IF ~Sortable(r2.q) THEN [q |-> r2.q, stats |-> st, ok |-> FALSE]
        ELSE [q |-> SortQueue(r2.q),
              stats |-> IF DOMAIN state.statistics # {}
                        THEN [st EXCEPT
                                 !.torrents_processed =
                                     Get(state.statistics, "torrents_processed", 0),
                                 !.space_management_runs =
                                     Get(state.statistics, "space_management_runs", 0)]
                        ELSE st,
              ok |-> TRUE]

(***************************************************************************)
(* Saving: _save_current_state, from POST /state/save or from shutdown.    *)
(* The save holds the orchestrator lock from the snapshot to the rename.   *)
(***************************************************************************)
NoGhost == [valid |-> FALSE, q |-> << >>, running |-> << >>]
Ghost(q, rp) == [valid |-> TRUE, q |-> q, running |-> SelectSeq(rp, LAMBDA p : p.status = "running")]

\* a save that writes into the checkpoint file itself
InPlace == TRUE

\* where json.dump writes: the temporary file, renamed when complete
WritesInPlace == FALSE

\* the snapshot is taken and the file opened for writing (truncated)
save_begin(caller) ==
    /\ save_job = "idle"
    /\ IF caller = "endpoint"
       THEN Serving /\ saved.requests < MaxSaves
       ELSE phase = "sd_save"
    /\ save_job' = caller
    /\ LET text == ServiceState(process_queue, running_processes, stats, now)
       IN  IF WritesInPlace
           THEN state_file' = File(text, 0) /\ temp_file' = temp_file
           ELSE temp_file' = File(text, 0) /\ state_file' = state_file
    /\ saved' = [saved EXCEPT !.pending = Ghost(process_queue, running_processes),
                              !.requests = IF caller = "endpoint" THEN @ + 1 ELSE @]
    /\ reply' = NoReply
    /\ UNCHANGED <<phase, process_queue, running_processes, copy_queue,
                   running_copy_operations, exec_queue, exec_running,
                   shutdown_in_progress, stats, now, nextId, loaded, popLog, boots, reloc, space, fin, http, qbit_client,
                   shutdown_log, max_processes>>

\* json.dump writes one more piece
save_write ==
    /\ save_job # "idle"
    /\ IF WritesInPlace
       THEN /\ state_file.written < NumChunks
            /\ state_file' = [state_file EXCEPT !.written = @ + 1]
            /\ temp_file' = temp_file
       ELSE /\ temp_file.written < NumChunks
            /\ temp_file' = [temp_file EXCEPT !.written = @ + 1]
            /\ state_file' = state_file
    /\ reply' = NoReply
    /\ UNCHANGED <<phase, process_queue, running_processes, copy_queue,
                   running_copy_operations, exec_queue, exec_running,
                   shutdown_in_progress, stats, now, nextId, save_job, loaded,
                   popLog, saved, boots, reloc, space, fin, http, qbit_client,
                   shutdown_log, max_processes>>

\* what shutdown goes on to once _save_current_state has returned:
\* total_operations > 0 leads to the drain wait
AfterSave == IF Len(running_processes) + Len(running_copy_operations) > 0
             THEN "sd_wait" ELSE "sd_logout"

\* os.replace(temp_file, state_file), and the save returns True
save_replace ==
    /\ save_job # "idle"
    /\ IF WritesInPlace
       THEN /\ state_file.written = NumChunks
            /\ UNCHANGED <<state_file, temp_file>>
       ELSE /\ temp_file.written = NumChunks
            /\ state_file' = temp_file
            /\ temp_file' = NoFile
    /\ saved' = [saved EXCEPT !.pending = NoGhost, !.committed = saved.pending]
    /\ save_job' = "idle"
    /\ phase' = IF save_job = "shutdown" THEN AfterSave ELSE phase
    /\ reply' = IF save_job = "endpoint" THEN Reply("save", 200, NoId, "saved") ELSE NoReply
    /\ shutdown_log' = IF save_job = "shutdown"
                       THEN [shutdown_log EXCEPT !.steps = Append(@, "checkpoint")]
                       ELSE shutdown_log
    /\ UNCHANGED <<process_queue, running_processes, copy_queue,
                   running_copy_operations, exec_queue, exec_running,
                   shutdown_in_progress, stats, now, nextId, loaded, popLog,
                   boots, reloc, space, fin, http, qbit_client, max_processes>>

\* the write raises (OSError): the save returns False, its caller goes on
save_fail ==
    /\ save_job # "idle"
    /\ save_job' = "idle"
    /\ saved' = [saved EXCEPT !.pending = NoGhost]
    /\ phase' = IF save_job = "shutdown" THEN AfterSave ELSE phase
    /\ reply' = IF save_job = "endpoint" THEN Reply("save", 200, NoId, "saved") ELSE NoReply
    /\ UNCHANGED <<process_queue, running_processes, copy_queue,
                   running_copy_operations, exec_queue, exec_running,
                   shutdown_in_progress, stats, now, nextId, state_file,
                   temp_file, loaded, popLog, boots, reloc, space, fin, http, qbit_client,
                   shutdown_log, max_processes>>

(***************************************************************************)
(* The life of the process: start with restore, graceful shutdown, crash.  *)
(***************************************************************************)
\* counters that have counted before the restore
StartedStats == [torrents_processed |-> 3, space_management_runs |-> 2,
                 api_requests |-> 0,
                 copy_operations_completed |-> 0, copy_operations_failed |-> 0]

\* service.py lines 69-77: the counters of a new orchestrator
ZeroStats == [torrents_processed |-> 0, space_management_runs |-> 0,
              api_requests |-> 0,
              copy_operations_completed |-> 0, copy_operations_failed |-> 0]

\* the memory of a process that is not running, and of a fresh orchestrator
FreshMemory ==
    /\ process_queue' = << >>
    /\ running_processes' = << >>
    /\ copy_queue' = << >>
    /\ running_copy_operations' = << >>
    /\ exec_queue' = << >>
    /\ exec_running' = [torrents |-> {}, space |-> 0]
    /\ shutdown_in_progress' = FALSE
    /\ stats' = ZeroStats
    /\ save_job' = "idle"
    /\ loaded' = NoState
    /\ reply' = NoReply
    /\ popLog' = << >>
    /\ http' = NoRequest
    /\ qbit_client' = "none"

\* QbitManagerOrchestrator.__init__ up to _restore_previous_state
boot ==
    /\ phase = "down"
    /\ boots < MaxBoots
    /\ boots' = boots + 1
    /\ phase' = "load"
    /\ FreshMemory
    /\ saved' = [saved EXCEPT !.pending = NoGhost]
    /\ shutdown_log' = [NoShutdown EXCEPT !.finished = shutdown_log.finished]
    /\ UNCHANGED <<now, nextId, state_file, temp_file, reloc, space, fin,
                   max_processes>>

\* _restore_previous_state: state = load_orchestrator_state()
load ==
    /\ phase = "load"
    /\ loaded' = load_orchestrator_state(state_file, now)
    /\ phase' = IF loaded'.ok THEN "restore" ELSE "serving"
    /\ reply' = NoReply
    /\ UNCHANGED <<process_queue, running_processes, copy_queue,
                   running_copy_operations, exec_queue, exec_running,
                   shutdown_in_progress, stats, now, nextId, state_file,
                   temp_file, save_job, popLog, saved, boots, reloc, space, fin, http, qbit_client,
                   shutdown_log, max_processes>>

\* _restore_previous_state: restore_orchestrator_state(self, state)
restore ==
    /\ phase = "restore"
    /\ LET r == restore_orchestrator_state(process_queue, stats, loaded, now)
       IN  /\ process_queue' = r.q
           /\ stats' = r.stats
           /\ reply' = Reply("restore", 0, NoId, IF r.ok THEN "restored" ELSE "failed")
    /\ loaded' = NoState
    /\ phase' = "dispatch"
    /\ UNCHANGED <<running_processes, copy_queue, running_copy_operations,
                   exec_queue, exec_running, shutdown_in_progress, now, nextId,
                   state_file, temp_file, save_job, popLog, saved,
                   boots, reloc, space, fin, http, qbit_client,
                   shutdown_log, max_processes>>

\* _restore_previous_state: self._process_queue()
boot_dispatch ==
    /\ phase = "dispatch"
    /\ SetOrch(process_queue_(Orch, now))
    /\ phase' = "cleanup"
    /\ reply' = NoReply
    /\ UNCHANGED <<copy_queue, running_copy_operations, exec_running,
                   shutdown_in_progress, stats, now, state_file, temp_file,
                   save_job, loaded, saved, boots, reloc, space, fin, http, qbit_client,
                   shutdown_log, max_processes>>

\* _restore_previous_state: cleanup_state_file()
cleanup_state_file ==
    /\ phase = "cleanup"
    /\ LockFree
    /\ state_file' = NoFile
    /\ saved' = [saved EXCEPT !.committed = NoGhost]
    /\ phase' = "serving"
    /\ reply' = NoReply
    /\ UNCHANGED <<process_queue, running_processes, copy_queue,
                   running_copy_operations, exec_queue, exec_running,
                   shutdown_in_progress, stats, now, nextId, temp_file,
                   save_job, loaded, popLog, boots, reloc, space, fin, http, qbit_client,
                   shutdown_log, max_processes>>

\* shutdown(): the flag is set under the lock
shutdown_begin ==
    /\ phase = "serving"
    /\ LockFree
    /\ shutdown_in_progress' = TRUE
    /\ phase' = "sd_save"
    /\ shutdown_log' = [NoShutdown EXCEPT !.steps = <<"flag">>,
                                          !.had_client = qbit_client = "connected"]
    /\ reply' = NoReply
    /\ UNCHANGED <<process_queue, running_processes, copy_queue,
                   running_copy_operations, exec_queue, exec_running, stats,
                   now, nextId, state_file, temp_file, save_job, loaded,
                   popLog, saved, boots, reloc, space, fin, http, qbit_client,
                   max_processes>>

\* ThreadPoolExecutor.shutdown(wait=True, *, cancel_futures=False) has no
\* parameter timeout: the call executor.shutdown(wait=False, timeout=5)
\* raises before it does anything
executor_shutdown(wait, timeout) == "TypeError"

\* shutdown(): the records in the maps stay there, so the drain wait lasts
\* its 30 seconds; then executor.shutdown(wait=False, timeout=5) raises and
\* shutdown() is left with that exception, which the signal handler logs
\* before it leaves the process
shutdown_pools ==
    /\ phase = "sd_wait"
    /\ LockFree
    /\ shutdown_log' =
         LET waited == [shutdown_log EXCEPT !.steps = Append(@, "wait")]
         IN  IF executor_shutdown(FALSE, 5) = "ok"
             THEN [waited EXCEPT !.steps = Append(@, "pools")]
             ELSE [waited EXCEPT !.ended = TRUE,
                                 !.error = executor_shutdown(FALSE, 5)]
    /\ IF executor_shutdown(FALSE, 5) = "ok"
       THEN /\ phase' = "sd_logout"
            /\ reply' = NoReply
            /\ UNCHANGED <<process_queue, running_processes, copy_queue,
                           running_copy_operations, exec_queue, exec_running,
                           shutdown_in_progress, stats, save_job, loaded,
                           popLog, http, qbit_client, saved>>
       ELSE /\ phase' = "down"
            /\ FreshMemory
            /\ saved' = [saved EXCEPT !.pending = NoGhost]
    /\ UNCHANGED <<now, nextId, state_file, temp_file, boots, reloc, space,
                   fin, max_processes>>

\* shutdown(): with a session open, close_qbit_client() logs out; "Orchestrator
\* shutdown complete", and the signal handler leaves the process
shutdown_end ==
    /\ phase = "sd_logout"
    /\ LockFree
    /\ shutdown_log' =
         [shutdown_log EXCEPT
             !.steps = IF qbit_client = "connected" THEN Append(@, "logout") ELSE @,
             !.ended = TRUE]
    /\ phase' = "down"
    /\ FreshMemory
    /\ saved' = [saved EXCEPT !.pending = NoGhost]
    /\ UNCHANGED <<now, nextId, state_file, temp_file, boots, reloc, space,
                   fin, max_processes>>

\* the process is killed or the machine stops: memory is lost, files stay
crash ==
    /\ phase # "down"
    /\ phase' = "down"
    /\ FreshMemory
    /\ saved' = [saved EXCEPT !.pending = NoGhost]
    /\ UNCHANGED <<now, nextId, state_file, temp_file, boots, reloc, space,
                   fin, shutdown_log, max_processes>>

\* a second passes while the process is down; within one life of the process
\* every reading of the clock gives the same second
tick ==
    /\ phase = "down"
    /\ now % DAY < MaxTicks
    /\ now' = now + 1
    /\ reply' = NoReply
    /\ UNCHANGED <<phase, process_queue, running_processes, copy_queue,
                   running_copy_operations, exec_queue, exec_running,
                   shutdown_in_progress, stats, nextId, state_file, temp_file,
                   save_job, loaded, popLog, saved, boots, reloc, space, fin, http, qbit_client,
                   shutdown_log, max_processes>>

\* the process stays down for a day
day_passes ==
    /\ phase = "down"
    /\ state_file.exists
    /\ now \div DAY < MaxDays
    /\ now' = now + DAY
    /\ reply' = NoReply
    /\ UNCHANGED <<phase, process_queue, running_processes, copy_queue,
                   running_copy_operations, exec_queue, exec_running,
                   shutdown_in_progress, stats, nextId, state_file, temp_file,
                   save_job, loaded, popLog, saved, boots, reloc, space, fin, http, qbit_client,
                   shutdown_log, max_processes>>

\* a checkpoint left behind by another release of the program
ForeignCheckpoint ==
    [queue_items |-> <<PersistedQueueItem(
                         QueueItem(Uuid(0), from_hash_only(HashA).val, 0, 0))>>,
     running_processes |-> << >>,
     statistics |-> ZeroStats,
     shutdown_time |-> 0,
     version |-> "2.0"]

\* a checkpoint an earlier life of the process wrote at its shutdown: one
\* item waiting and one torrent in progress
EarlierCheckpoint ==
    ServiceState(<<QueueItem(Uuid(-1), from_hash_only(HashA).val, 0, 0)>>,
                 <<ProcessInfo(Uuid(-2), HashA, 0, "running")>>,
                 ZeroStats, 0)

\* the memory of an orchestrator just constructed, before
\* _restore_previous_state
OrchInit ==
    /\ process_queue = << >>
    /\ running_processes = << >>
    /\ copy_queue = << >>
    /\ running_copy_operations = << >>
    /\ exec_queue = << >>
    /\ exec_running = [torrents |-> {}, space |-> 0]
    /\ shutdown_in_progress = FALSE
    /\ stats = ZeroStats
    /\ nextId = 1
    /\ temp_file = NoFile
    /\ save_job = "idle"
    /\ loaded = NoState
    /\ reply = NoReply
    /\ popLog = << >>
    /\ saved = [pending |-> NoGhost, committed |-> NoGhost, requests |-> 0]
    /\ http = NoRequest
    /\ qbit_client = "none"
    /\ shutdown_log = NoShutdown

(***************************************************************************)
(* core.py: the Relocator.  Paths are sequences of components; the data of *)
(* a torrent on a disk is absent or has a total size and an item count.    *)
(***************************************************************************)
\* config.DOWNLOAD_PATH_SSD, the cache-root
CacheRoot == <<"cache">>

\* the symbolic links of the file system: link |-> what it points to
Symlinks == (<<"cache", "ln">> :> <<"mnt", "other">>)

\* os.path.normpath on components: "." goes, ".." takes its parent with it
RECURSIVE normpath_from(_, _)
normpath_from(done, rest) ==
    IF rest = << >> THEN done
    ELSE IF Head(rest) = "." THEN normpath_from(done, Tail(rest))
    ELSE IF Head(rest) = ".." /\ done # << >>
         THEN normpath_from(SubSeq(done, 1, Len(done) - 1), Tail(rest))
    ELSE IF Head(rest) = ".." THEN normpath_from(done, Tail(rest))
    ELSE normpath_from(Append(done, Head(rest)), Tail(rest))

normpath(p) == normpath_from(<< >>, p)

\* os.path.realpath: the links on the way are followed
RECURSIVE realpath_from(_, _)
realpath_from(done, rest) ==
    IF rest = << >> THEN done
    ELSE LET next == normpath(Append(done, Head(rest)))
         IN  IF next \in DOMAIN Symlinks
             THEN realpath_from(Symlinks[next], Tail(rest))
             ELSE realpath_from(next, Tail(rest))

realpath(p) == realpath_from(<< >>, p)

\* os.path.commonpath of two absolute paths: their longest common prefix
RECURSIVE commonpath(_, _)
commonpath(a, b) ==
    IF a = << >> \/ b = << >> \/ Head(a) # Head(b) THEN << >>
    ELSE <<Head(a)>> \o commonpath(Tail(a), Tail(b))

\* the safety check before the delete, in both variants
PassesSafetyCheck(path) ==
    LET norm_ssd_dl_path == normpath(realpath(CacheRoot))
        norm_ssd_data_path == normpath(realpath(path))
    IN  commonpath(norm_ssd_data_path, norm_ssd_dl_path) = norm_ssd_dl_path

\* what the claims call strictly inside the cache-root
StrictlyInside(path, root) ==
    LET p == normpath(realpath(path))
        r == normpath(realpath(root))
    IN  Len(p) > Len(r) /\ SubSeq(p, 1, Len(r)) = r

NoData == [exists |-> FALSE, size |-> 0, items |-> 0]
Data(size, items) == [exists |-> TRUE, size |-> size, items |-> items]

\* util.py verify_copy on the stats of source and destination
verify_copy(src, dst, is_multi) ==
    IF ~src.exists \/ ~dst.exists THEN FALSE
    ELSE IF ~is_multi THEN src.size = dst.size /\ src.size >= 0
    ELSE \/ (src.size = dst.size /\ src.items = dst.items
               /\ src.items > 0 /\ src.size >= 0)
         \/ (src.size = 0 /\ dst.size = 0 /\ src.items = dst.items)

(***************************************************************************)
(* tautulli.py: the streaming oracle.  What Tautulli answers to            *)
(* get_activity is a set of sessions, each with the file as the Plex       *)
(* container names it and a state.                                         *)
(***************************************************************************)
\* config.PLEX_PATH_MAPPINGS: mount of the service |-> mount of Plex
PLEX_PATH_MAPPINGS ==
    (<<"cache">> :> <<"mnt", "ssd-cache">>) @@ (<<"bulk">> :> <<"Downloads">>)

IsPrefix(a, b) == Len(a) <= Len(b) /\ SubSeq(b, 1, Len(a)) = a

\* the states of a session that count as streaming
StreamingStates == {"playing", "paused", "buffering"}

Session(file, state) == [file |-> file, state |-> state]

\* the oracle as a call finds it: whether URL and key are configured, whether
\* the request succeeds, and the sessions of its answer
Tautulli(configured, result, sessions) ==
    [configured |-> configured, result |-> result, sessions |-> sessions]

NotAsked == Tautulli(FALSE, "none", {})

\* get_currently_streaming_files: nothing without configuration or on any
\* failure, else the files of the sessions in a streaming state
get_currently_streaming_files(tautulli) ==
    IF ~tautulli.configured THEN {}
    ELSE IF tautulli.result # "success" THEN {}
    ELSE {x.file : x \in {y \in tautulli.sessions :
                              y.file # << >> /\ y.state \in StreamingStates}}

\* convert_local_path_to_plex_path: the longest mount the path lies within
\* is replaced by its Plex mount; a path within no mount stays as it is
convert_local_path_to_plex_path(local_path) ==
    LET abs_local_path == normpath(local_path)
        within == {m \in DOMAIN PLEX_PATH_MAPPINGS : IsPrefix(m, abs_local_path)}
    IN  IF within = {} THEN local_path
        ELSE LET local_mount == CHOOSE m \in within :
                                    \A o \in within : Len(o) <= Len(m)
             IN  PLEX_PATH_MAPPINGS[local_mount]
                     \o SubSeq(abs_local_path, Len(local_mount) + 1,
                               Len(abs_local_path))

\* paths_refer_to_same_file_with_mapping: equal after the mapping, or one
\* within the other
paths_refer_to_same_file_with_mapping(local_path, plex_path) ==
    LET mapped_plex_path_norm == normpath(convert_local_path_to_plex_path(local_path))
        plex_path_norm == normpath(plex_path)
    IN  \/ mapped_plex_path_norm = plex_path_norm
        \/ IsPrefix(mapped_plex_path_norm, plex_path_norm)
        \/ IsPrefix(plex_path_norm, mapped_plex_path_norm)

\* the names of the files of a torrent of several files
FileNames == <<"e1", "e2", "e3">>

\* the files os.walk finds at a content path: the path itself if it is a
\* file, else one file for every item below the directory
LocalFiles(path, data) ==
    IF ~data.exists THEN {}
    ELSE IF data.items = 1 THEN {path}
    ELSE {Append(path, FileNames[k]) : k \in 1..(data.items - 1)}

\* get_streaming_status_for_directory(...)['is_any_file_streaming']: a path
\* that does not exist is not streaming and the oracle is not asked
is_any_file_streaming(path, data, tautulli) ==
    IF ~data.exists THEN FALSE
    ELSE LET streaming_files_from_tautulli == get_currently_streaming_files(tautulli)
         IN  \E local_file \in LocalFiles(path, data) :
                 \E streaming_file \in streaming_files_from_tautulli :
                     paths_refer_to_same_file_with_mapping(local_file, streaming_file)

\* what the oracle may be found answering
PlexFiles ==
    {<<"mnt", "ssd-cache", "radarr", "m">>,
     <<"mnt", "ssd-cache", "radarr", "m", "e1">>,
     <<"mnt", "ssd-cache", "radarr", "m2">>,
     <<"mnt", "ssd-cache", "radarr", "m3">>,
     <<"mnt", "library", "x">>}

TautulliAnswers ==
    {Tautulli(FALSE, "none", {}), Tautulli(TRUE, "error", {}),
     Tautulli(TRUE, "success", {})}
    \cup {Tautulli(TRUE, "success", {Session(f, st)}) :
              f \in PlexFiles, st \in {"playing", "buffering", "stopped"}}
    \cup {Tautulli(TRUE, "success",
                   {Session(<<"mnt", "library", "x">>, "playing"),
                    Session(<<"mnt", "ssd-cache", "radarr", "m">>, "paused")})}

\* the states of a torrent the Relocator takes for active
ActiveStates == {"downloading", "uploading", "stalledDL", "stalledUP",
                 "queuedDL", "queuedUP", "checkingDL", "checkingUP",
                 "forcedDL", "forcedUP"}

\* the torrents a Relocator run is started on, with the disk it finds:
\* path is torrent_info.path, src the data there, dst the data at
\* bulk-root/category/name.strip(); legacy_hardlinks counts the files of the
\* library roots that share device and inode with a file under that bulk
\* path; tagging is config.ENABLE_LOCATION_TAGGING,
\* ssd_tag and hdd_tag tell which of the two location tags the torrent has
ContentPaths ==
    {<<"cache", "radarr", "m">>, <<"cache">>, <<"cache2", "m">>,
     <<"cache", "ln", "m">>}

SourceData == {NoData, Data(4, 1), Data(4, 3)}
DestinationData == {NoData, Data(4, 1), Data(4, 3), Data(2, 1), Data(4, 2)}

\* a content path that is the cache-root itself is that of a torrent of
\* several files saved without a root folder
RelocatorRuns ==
    {r \in [pc : {"begin"},
            variant : {"plain", "import_script"},
            path : ContentPaths,
            src : SourceData,
            dst : DestinationData,
            state : {"uploading", "pausedUP"},
            paused : {FALSE},
            was_started : {FALSE},
            location : {"cache"},
            tagging : BOOLEAN,
            ssd_tag : {TRUE},
            hdd_tag : BOOLEAN,
            oracle : {NotAsked},
            symlinks : {0},
            hardlinks : {0},
            legacy_hardlinks : 0..1,
            failed_links : {0},
            deleted : {FALSE},
            removed : {NoData},
            result : {"none"}] :
        /\ r.path = CacheRoot => r.src.items # 1
        /\ r.legacy_hardlinks > 0 => r.dst.exists}

IsMultiFile(r) == r.src.items > 1

\* the run returns: result is True/False of the plain variant, or the reason
\* of the stream-aware one
Return(r, result) == [r EXCEPT !.pc = "done", !.result = result]

\* client.torrents_resume
Resume(r) == [r EXCEPT !.paused = FALSE]

ResumeIfStarted(r) == IF r.was_started THEN Resume(r) ELSE r

\* lines 124-148: dry run, the torrent is looked up and paused if active
reloc_begin(dry_run, found) ==
    /\ reloc.pc = "begin" /\ reloc.variant = "plain"
    /\ reloc' =
         IF dry_run THEN Return(reloc, "True")
         ELSE IF ~found THEN Return(reloc, "False")
         ELSE IF reloc.state \in ActiveStates
              THEN [reloc EXCEPT !.was_started = TRUE, !.paused = TRUE,
                                 !.pc = "set_location"]
              ELSE [reloc EXCEPT !.pc = "set_location"]
    /\ UNCHANGED <<orchVars, space, fin>>

\* lines 150-154 and 247-255: torrents_set_location, which may raise
reloc_set_location(api_ok) ==
    /\ reloc.pc = "set_location"
    /\ reloc' =
         IF api_ok THEN [reloc EXCEPT !.location = "bulk", !.pc = "check_destination"]
         ELSE Return(ResumeIfStarted(reloc), "False")
    /\ UNCHANGED <<orchVars, space, fin>>

\* lines 156-197: the destination is copied and verified if it is not there
reloc_check_destination(copy_ok) ==
    /\ reloc.pc = "check_destination"
    /\ reloc' =
         IF ~reloc.dst.exists
         THEN IF ~copy_ok \/ ~reloc.src.exists
              THEN Return(ResumeIfStarted(
                       [reloc EXCEPT !.dst = IF reloc.src.exists
                                              THEN Data(reloc.src.size \div 2, 1)
                                              ELSE NoData]), "False")
              ELSE LET copied == [reloc EXCEPT !.dst = reloc.src]
                   IN  IF verify_copy(copied.src, copied.dst, IsMultiFile(copied))
                       THEN [copied EXCEPT !.pc = "safety_check"]
                       ELSE Return(ResumeIfStarted(copied), "False")
         ELSE [reloc EXCEPT !.pc = "safety_check"]
    /\ UNCHANGED <<orchVars, space, fin>>

\* a delete that returns without an error and leaves the data where it is
DeleteLeavesData(r) ==
    IF r.src.exists THEN [r EXCEPT !.deleted = TRUE] ELSE r

\* shutil.rmtree / os.remove of torrent_info.path, if there is anything
\* there; deleted and removed keep what the run took from the cache
Delete(r) ==
    IF r.src.exists
    THEN [r EXCEPT !.src = NoData, !.deleted = TRUE, !.removed = r.src]
    ELSE r

\* tags.py remove_ssd_tag: nothing is done if config.ENABLE_LOCATION_TAGGING
\* is off, and a failure of the API is logged and swallowed
remove_ssd_tag(r, tag_ok) ==
    IF ~r.tagging THEN r
    ELSE IF tag_ok THEN [r EXCEPT !.ssd_tag = FALSE]
    ELSE r

\* lines 199-245: safety check, delete, tag, resume
reloc_delete(delete_ok, tag_ok) ==
    /\ reloc.pc = "safety_check"
    /\ reloc' =
         IF ~PassesSafetyCheck(reloc.path)
         THEN Return(ResumeIfStarted(reloc), "False")
         ELSE IF reloc.src.exists /\ ~delete_ok
         THEN Return(ResumeIfStarted(reloc), "False")
         ELSE Return(ResumeIfStarted(remove_ssd_tag(Delete(reloc), tag_ok)), "True")
    /\ UNCHANGED <<orchVars, space, fin>>

\* lines 623-633: find_links_to_ssd_path is called with expected_hdd_path,
\* a local of the function whose one assignment is at line 655, so reading
\* it at line 627 raises UnboundLocalError before the search is entered.
\* The except branch runs find_symlinks_to_ssd_path and sets
\* existing_hardlinks to []: of nlinks symbolic links and
\* r.legacy_hardlinks legacy hardlinks in the library roots, the symbolic
\* links only are found.
links_found(r, nlinks) ==
    [symlinks_to_replace |-> nlinks, existing_hardlinks |-> 0]

\* relocate_and_delete_ssd_import_script_mode, lines 585-640: the mode is
\* on, nothing streams, root folders are configured, links are found
reloc_import_begin(enabled, tautulli, has_roots, nlinks) ==
    /\ reloc.pc = "begin" /\ reloc.variant = "import_script"
    /\ reloc' =
         IF ~enabled THEN Return(reloc, "disabled")
         ELSE LET r == [reloc EXCEPT !.oracle = tautulli]
              IN  IF is_any_file_streaming(r.path, r.src, tautulli)
                  THEN Return(r, "streaming")
                  ELSE IF ~has_roots THEN Return(r, "no_config")
                  ELSE LET found == links_found(r, nlinks)
                           total_links == found.symlinks_to_replace
                                              + found.existing_hardlinks
                       IN  IF total_links = 0 THEN Return(r, "no_links")
                           ELSE [r EXCEPT !.symlinks = found.symlinks_to_replace,
                                          !.pc = "verify_hdd"]
    /\ UNCHANGED <<orchVars, space, fin>>

\* lines 653-668: the bulk copy must exist and verify
reloc_import_verify ==
    /\ reloc.pc = "verify_hdd"
    /\ reloc' =
         IF ~reloc.dst.exists THEN Return(reloc, "no_hdd_copy")
         ELSE IF ~verify_copy(reloc.src, reloc.dst, IsMultiFile(reloc))
         THEN Return(reloc, "no_hdd_copy")
         ELSE [reloc EXCEPT !.pc = "replace"]
    /\ UNCHANGED <<orchVars, space, fin>>

\* lines 670-688 and symlink_utils.py replace_symlinks_with_hardlinks:
\* replaced_count of the symbolic links found become hard links, the others
\* are skipped or fail and stay; failed_links counts those
reloc_import_replace(replaced_count) ==
    /\ reloc.pc = "replace"
    /\ replaced_count <= reloc.symlinks
    /\ LET r == [reloc EXCEPT !.symlinks = @ - replaced_count,
                              !.hardlinks = replaced_count,
                              !.failed_links = reloc.symlinks - replaced_count]
       IN  reloc' =
             IF replaced_count = 0 THEN Return(r, "error")
             ELSE [r EXCEPT !.pc = "import_set_location"]
    /\ UNCHANGED <<orchVars, space, fin>>

\* lines 690-715: pause if active, set the location; an API error ends the run
reloc_import_set_location(found, api_ok) ==
    /\ reloc.pc = "import_set_location"
    /\ reloc' =
         IF ~found THEN Return(reloc, "error")
         ELSE LET r == IF reloc.state \in ActiveStates
                       THEN [reloc EXCEPT !.was_started = TRUE, !.paused = TRUE]
                       ELSE reloc
              IN  IF api_ok THEN [r EXCEPT !.location = "bulk", !.pc = "import_delete"]
                  ELSE Return(ResumeIfStarted(r), "error")
    /\ UNCHANGED <<orchVars, space, fin>>

\* lines 717-754: safety check, delete, and on success tag and resume
reloc_import_delete(delete_ok, tag_ok) ==
    /\ reloc.pc = "import_delete"
    /\ reloc' =
         IF ~PassesSafetyCheck(reloc.path) THEN Return(reloc, "error")
         ELSE IF reloc.src.exists /\ ~delete_ok THEN Return(reloc, "error")
         ELSE Return(ResumeIfStarted(remove_ssd_tag(Delete(reloc), tag_ok)), "success")
    /\ UNCHANGED <<orchVars, space, fin>>

(***************************************************************************)
(* core.py manage_ssd_space: the reclamation pass.  The torrents of the    *)
(* client are records with their tags, times, size in GiB, and the data    *)
(* they have on the two disks.                                             *)
(***************************************************************************)
\* config.DISK_SPACE_THRESHOLD_GB
DISK_SPACE_THRESHOLD_GB == 100

\* config.SSD_LOCATION_TAG and config.HDD_LOCATION_TAG
SSD_LOCATION_TAG == "ssd"
HDD_LOCATION_TAG == "hdd"

Torrent(hash, content_path, size, completion_on, tags, dst) ==
    [hash |-> hash, content_path |-> content_path, size |-> size,
     completion_on |-> completion_on, last_activity |-> completion_on + 1,
     tags |-> tags, state |-> "uploading", src |-> Data(4, 1), dst |-> dst]

\* client.torrents_info(status_filter='completed', tag=tag): the client
\* filters, and every torrent of the model is completed
get_torrents_by_status_and_tag(torrents, tag) ==
    SelectSeq(torrents, LAMBDA t : tag \in t.tags)

\* lines 420-439: the torrents the pass looks at
ssd_torrents(torrents, tagging) ==
    IF tagging
    THEN SelectSeq(get_torrents_by_status_and_tag(torrents, SSD_LOCATION_TAG),
                   LAMBDA t : HDD_LOCATION_TAG \in t.tags)
    ELSE SelectSeq(torrents, LAMBDA t : IsPrefix(CacheRoot, t.content_path))

\* lines 457-474: completion_on, else last_activity, else the time of the pass
completed_timestamp(t, time) ==
    IF t.completion_on # 0 THEN t.completion_on
    ELSE IF t.last_activity # 0 THEN t.last_activity
    ELSE time

\* sorted(..., key=timestamp): a stable insertion sort
RECURSIVE InsertByTimestamp(_, _)
InsertByTimestamp(sorted, x) ==
    IF sorted = << >> THEN <<x>>
    ELSE IF x.timestamp < Head(sorted).timestamp THEN <<x>> \o sorted
    ELSE <<Head(sorted)>> \o InsertByTimestamp(Tail(sorted), x)

RECURSIVE SortByTimestamp(_, _)
SortByTimestamp(sorted, rest) ==
    IF rest = << >> THEN sorted
    ELSE SortByTimestamp(InsertByTimestamp(sorted, Head(rest)), Tail(rest))

\* lines 441-512: a torrent with a timestamp <= 0 is left out, the others are
\* sorted oldest first
RECURSIVE collect_infos(_, _)
collect_infos(list, time) ==
    IF list = << >> THEN << >>
    ELSE LET t == Head(list)
             ts == completed_timestamp(t, time)
         IN  IF ts <= 0 THEN collect_infos(Tail(list), time)
             ELSE <<[torrent_info |-> t, size |-> t.size, timestamp |-> ts]>>
                      \o collect_infos(Tail(list), time)

sorted_torrents_on_ssd(torrents, tagging, time) ==
    SortByTimestamp(<< >>, collect_infos(ssd_torrents(torrents, tagging), time))

\* only the reasons other than "streaming" skip
SkipReasonsWithoutStreaming == {"no_symlinks", "no_links", "no_hdd_copy", "no_config"}

\* line 541: the reasons that skip a torrent without the plain variant
SkipReasons == {"streaming", "no_symlinks", "no_links", "no_hdd_copy", "no_config"}

\* enough is freed only when more than the need is
EnoughFreedStrictly(space_freed_gb, space_needed) == space_freed_gb > space_needed

\* line 526: enough is freed
EnoughFreed(space_freed_gb, space_needed) == space_freed_gb >= space_needed

\* the Relocator run the pass starts on a torrent
RunOn(t, variant, tagging) ==
    [pc |-> "begin", variant |-> variant, path |-> t.content_path,
     src |-> t.src, dst |-> t.dst, state |-> t.state, paused |-> FALSE,
     was_started |-> FALSE, location |-> "cache", tagging |-> tagging,
     ssd_tag |-> SSD_LOCATION_TAG \in t.tags,
     hdd_tag |-> HDD_LOCATION_TAG \in t.tags, oracle |-> NotAsked,
     symlinks |-> 0, hardlinks |-> 0, legacy_hardlinks |-> 0,
     failed_links |-> 0, deleted |-> FALSE,
     removed |-> NoData,
     result |-> "none"]

\* line 550: the plain variant is called on what the stream-aware one left
Fallback(r) ==
    [r EXCEPT !.pc = "begin", !.variant = "plain", !.result = "none",
              !.was_started = FALSE,
              !.state = IF r.paused THEN "pausedUP" ELSE r.state]

\* what the pass did to a torrent: the reasons and results its runs returned,
\* what the oracle answered, and what became of the torrent
Untouched ==
    [import |-> "none", plain |-> "none", oracle |-> NotAsked, paused |-> FALSE,
     location |-> "cache", deleted |-> FALSE]

Outcome(old, r) ==
    [import |-> IF r.variant = "import_script" THEN r.result ELSE old.import,
     plain |-> IF r.variant = "plain" THEN r.result ELSE old.plain,
     oracle |-> IF r.variant = "import_script" THEN r.oracle ELSE old.oracle,
     paused |-> old.paused \/ r.was_started,
     location |-> r.location,
     deleted |-> old.deleted \/ r.deleted]

\* util.py get_available_space_gb: the free GiB, or None if the disk cannot
\* be read
Reading(gb) == [ok |-> TRUE, gb |-> gb]
NoReading == [ok |-> FALSE, gb |-> 0]

\* a pass about to start: the configuration, the free space of the cache and
\* the torrents as the client lists them; relocated keeps the hashes counted
\* in relocated_count, in order
Pass(available_gb, torrents, tagging, import_mode, dry_run) ==
    [pc |-> "start", available_gb |-> available_gb, torrents |-> torrents,
     tagging |-> tagging, import_mode |-> import_mode, dry_run |-> dry_run,
     space_needed |-> 0, sorted |-> << >>, i |-> 0, space_freed_gb |-> 0,
     relocated_count |-> 0, relocated |-> << >>,
     did |-> [h \in {} |-> Untouched], ended |-> "none"]

EndPass(sp, how) == [sp EXCEPT !.pc = "done", !.ended = how]

\* a failed relocation only moves the pass to the next candidate
GoesOnAfterFailure(sp) == [sp EXCEPT !.i = @ + 1, !.pc = "loop"]

\* lines 557-559: a failed relocation breaks the loop
AfterFailure(sp) == EndPass(sp, "failure")

\* lines 403-521: the space check and the list of candidates
space_collect(api_ok) ==
    /\ space.pc = "start"
    /\ space' =
         IF ~space.available_gb.ok THEN EndPass(space, "no_reading")
         ELSE IF space.available_gb.gb >= DISK_SPACE_THRESHOLD_GB
         THEN EndPass(space, "enough_space")
         ELSE LET needed == DISK_SPACE_THRESHOLD_GB - space.available_gb.gb
                  sp == [space EXCEPT !.space_needed = needed]
              IN  IF ~api_ok THEN EndPass(sp, "no_list")
                  ELSE LET list == sorted_torrents_on_ssd(space.torrents,
                                                          space.tagging, now)
                       IN  IF list = << >> THEN EndPass(sp, "no_candidates")
                           ELSE [sp EXCEPT !.sorted = list, !.i = 1, !.pc = "loop",
                                           !.did = [h \in {list[k].torrent_info.hash :
                                                           k \in DOMAIN list}
                                                      |-> Untouched]]
    /\ UNCHANGED <<orchVars, reloc, fin>>

\* lines 525-538 and 549-551: the head of the loop, and the call of the
\* variant that runs first
space_next_candidate ==
    /\ space.pc = "loop"
    /\ IF space.i > Len(space.sorted)
       THEN space' = EndPass(space, "exhausted") /\ UNCHANGED reloc
       ELSE IF EnoughFreed(space.space_freed_gb, space.space_needed)
       THEN space' = EndPass(space, "freed") /\ UNCHANGED reloc
       ELSE /\ space' = [space EXCEPT !.pc = "relocating"]
            /\ reloc' = RunOn(space.sorted[space.i].torrent_info,
                              IF space.import_mode THEN "import_script" ELSE "plain",
                              space.tagging)
    /\ UNCHANGED <<orchVars, fin>>

\* lines 539-547: the stream-aware variant has returned
space_import_returned ==
    /\ space.pc = "relocating"
    /\ reloc.pc = "done" /\ reloc.variant = "import_script"
    /\ LET info == space.sorted[space.i]
           h == info.torrent_info.hash
           sp == [space EXCEPT !.did[h] = Outcome(@, reloc)]
       IN  IF reloc.result = "success"
           THEN /\ space' = [sp EXCEPT !.space_freed_gb = @ + info.size,
                                       !.relocated_count = @ + 1,
                                       !.relocated = Append(@, h),
                                       !.i = @ + 1, !.pc = "loop"]
                /\ UNCHANGED reloc
           ELSE IF reloc.result \in SkipReasons
           THEN /\ space' = [sp EXCEPT !.i = @ + 1, !.pc = "loop"]
                /\ UNCHANGED reloc
           ELSE /\ space' = sp
                /\ reloc' = Fallback(reloc)
    /\ UNCHANGED <<orchVars, fin>>

\* lines 554-559: the plain variant has returned
space_plain_returned ==
    /\ space.pc = "relocating"
    /\ reloc.pc = "done" /\ reloc.variant = "plain"
    /\ LET info == space.sorted[space.i]
           h == info.torrent_info.hash
           sp == [space EXCEPT !.did[h] = Outcome(@, reloc)]
       IN  space' =
             IF reloc.result = "True"
             THEN [sp EXCEPT !.space_freed_gb = @ + info.size,
                             !.relocated_count = @ + 1,
                             !.relocated = Append(@, h),
                             !.i = @ + 1, !.pc = "loop"]
             ELSE AfterFailure(sp)
    /\ UNCHANGED <<orchVars, reloc, fin>>

(***************************************************************************)
(* tasks.py process_torrent_unified and core.py                            *)
(* process_single_torrent_optimized: the Finisher.  fin holds one torrent, *)
(* its data on the two disks and its tags, and the runs the pool makes on  *)
(* the queue items of that torrent, in the order of the queue.             *)
(***************************************************************************)
\* config.COPY_RETRY_ATTEMPTS
COPY_RETRY_ATTEMPTS == 3

\* the threads of ThreadPoolExecutor are not the main thread
PoolThread == "ThreadPoolExecutor"

\* util.py timeout_context: signal.signal raises ValueError in any thread
\* but the main one
timeout_context(thread) == IF thread = "MainThread" THEN "entered" ELSE "ValueError"

\* qbit.py get_torrent_info under retry_with_backoff: the exception of the
\* last attempt, None for a hash the client does not know, else the
\* descriptor; every attempt meets the same thread
get_torrent_info(thread, known, api_ok) ==
    IF timeout_context(thread) # "entered" THEN timeout_context(thread)
    ELSE IF ~api_ok THEN "APIError"
    ELSE IF ~known THEN "None"
    ELSE "TorrentInfo"

\* tasks.py lines 53-57
has_complete_data(torrent_info) ==
    torrent_info.name # "" /\ torrent_info.content_path # "" /\ torrent_info.size > 0

IdleRun ==
    [pc |-> "idle", thread |-> PoolThread, hydrated |-> FALSE, error |-> "none",
     attempt |-> 0, copy_verified |-> FALSE, short_circuit |-> FALSE,
     copies |-> 0, cleanups |-> 0, wrote |-> FALSE, unlinked |-> FALSE,
     result |-> "none"]

\* the two queue items of one torrent wait for the pool: descriptor is what
\* both carry, workers the size of the pool, known whether the client has the
\* hash, auto_tag is config.AUTO_TAG_NEW_TORRENTS
Finisher(descriptor, workers, known, src, dst, tagging, auto_tag, dry_run, ssd_tag) ==
    [pc |-> "waiting", descriptor |-> descriptor, workers |-> workers,
     known |-> known, src |-> src, dst |-> dst, tagging |-> tagging,
     auto_tag |-> auto_tag, dry_run |-> dry_run, ssd_tag |-> ssd_tag,
     hdd_tag |-> FALSE, runs |-> <<IdleRun, IdleRun>>]

Active(f) == {r \in DOMAIN f.runs : f.runs[r].pc \notin {"idle", "done"}}

FinReturn(run, result) == [run EXCEPT !.pc = "done", !.result = result]

\* tags.py auto_tag_torrent: a torrent without a location tag gets the
\* cache-tag (its content is in the cache); a failure is swallowed
auto_tag_torrent(f, tag_ok) ==
    IF ~f.tagging \/ ~f.auto_tag THEN f
    ELSE IF f.ssd_tag \/ f.hdd_tag THEN f
    ELSE IF tag_ok THEN [f EXCEPT !.ssd_tag = TRUE]
    ELSE f

\* tags.py add_hdd_tag: nothing if tagging is off; a failure is swallowed
add_hdd_tag(f, tag_ok) ==
    IF ~f.tagging THEN f
    ELSE IF tag_ok THEN [f EXCEPT !.hdd_tag = TRUE]
    ELSE f

\* util.py cleanup_destination by run r: nothing in a dry run; else what is
\* at the destination goes, under the hands of a run that is copying to it
cleanup_destination(f, r) ==
    IF f.dry_run \/ ~f.dst.exists THEN f
    ELSE [f EXCEPT !.dst = NoData,
                   !.runs = [q \in DOMAIN f.runs |->
                               IF q = r THEN [f.runs[q] EXCEPT !.wrote = TRUE,
                                                               !.cleanups = @ + 1]
                               ELSE IF f.runs[q].pc = "copying"
                               THEN [f.runs[q] EXCEPT !.unlinked = TRUE]
                               ELSE f.runs[q]]]

\* service.py lines 121-155: a thread of the pool takes the next item
fin_start(r) ==
    /\ fin.pc = "waiting"
    /\ fin.runs[r].pc = "idle"
    /\ \A q \in DOMAIN fin.runs : q < r => fin.runs[q].pc # "idle"
    /\ Cardinality(Active(fin)) < fin.workers
    /\ fin' = [fin EXCEPT !.runs[r].pc = "start"]
    /\ UNCHANGED <<orchVars, reloc, space>>

\* tasks.py lines 51-98: a complete descriptor is used as it is, another is
\* filled by get_torrent_info; then the torrent is tagged for its location
fin_hydrate(r, api_ok, tag_ok) ==
    /\ fin.pc = "waiting"
    /\ fin.runs[r].pc = "start"
    /\ fin' =
         IF has_complete_data(fin.descriptor)
         THEN [auto_tag_torrent(fin, tag_ok) EXCEPT !.runs[r].pc = "precheck"]
         ELSE LET info == get_torrent_info(fin.runs[r].thread, fin.known, api_ok)
              IN  IF info = "TorrentInfo"
                  THEN [auto_tag_torrent(fin, tag_ok) EXCEPT
                            !.runs[r].hydrated = TRUE, !.runs[r].pc = "precheck"]
                  ELSE [fin EXCEPT !.runs[r] = FinReturn([@ EXCEPT !.error = info],
                                                         "False")]
    /\ UNCHANGED <<orchVars, reloc, space>>

\* core.py lines 283-293: a destination that exists and verifies is taken,
\* one that does not verify is removed
fin_precheck(r) ==
    /\ fin.pc = "waiting"
    /\ fin.runs[r].pc = "precheck"
    /\ fin' =
         IF fin.dst.exists /\ verify_copy(fin.src, fin.dst, fin.src.items > 1)
         THEN [fin EXCEPT !.runs[r].copy_verified = TRUE,
                          !.runs[r].short_circuit = TRUE,
                          !.runs[r].pc = "notify"]
         ELSE [cleanup_destination(fin, r) EXCEPT !.runs[r].attempt = 1,
                                                  !.runs[r].pc = "copy"]
    /\ UNCHANGED <<orchVars, reloc, space>>

\* lines 295-322: what a failed attempt left is removed, and the copy begins;
\* of a source that is not there nothing is written (copy2 and copytree open
\* the source first)
fin_copy_begin(r) ==
    /\ fin.pc = "waiting"
    /\ fin.runs[r].pc = "copy"
    /\ LET f == IF fin.runs[r].attempt > 1 THEN cleanup_destination(fin, r) ELSE fin
       IN  fin' =
             IF f.dry_run THEN [f EXCEPT !.runs[r].pc = "verify"]
             ELSE [f EXCEPT !.dst = IF f.dst.exists \/ ~f.src.exists THEN f.dst
                                    ELSE Data(f.src.size \div 2, 1),
                            !.runs[r].copies = @ + 1,
                            !.runs[r].wrote = @ \/ f.src.exists,
                            !.runs[r].unlinked = FALSE,
                            !.runs[r].pc = "copying"]
    /\ UNCHANGED <<orchVars, reloc, space>>

\* a loop that goes on to another attempt whatever their number
AlwaysAnotherAttempt(run) ==
    IF run.attempt >= COPY_RETRY_ATTEMPTS + 1 THEN [run EXCEPT !.pc = "failed"]
    ELSE [run EXCEPT !.attempt = @ + 1, !.pc = "copy"]

\* lines 298 and 339-342: the attempts are used up, or the next one begins
NextAttempt(run) ==
    IF run.attempt >= COPY_RETRY_ATTEMPTS THEN [run EXCEPT !.pc = "failed"]
    ELSE [run EXCEPT !.attempt = @ + 1, !.pc = "copy"]

\* lines 306-325: shutil.copy2 / copytree ends or raises (as it does of a
\* source that is not there); what was removed under its hands is not there
\* after it
fin_copy_end(r, copy_ok) ==
    /\ fin.pc = "waiting"
    /\ fin.runs[r].pc = "copying"
    /\ fin' =
         IF copy_ok /\ fin.src.exists
         THEN [fin EXCEPT !.dst = IF fin.runs[r].unlinked THEN fin.dst ELSE fin.src,
                          !.runs[r].pc = "verify"]
         ELSE [fin EXCEPT !.runs[r] = NextAttempt([@ EXCEPT !.error = "OSError"])]
    /\ UNCHANGED <<orchVars, reloc, space>>

\* lines 327-337: the verification of the attempt
fin_verify(r) ==
    /\ fin.pc = "waiting"
    /\ fin.runs[r].pc = "verify"
    /\ fin' =
         IF fin.dry_run \/ verify_copy(fin.src, fin.dst, fin.src.items > 1)
         THEN [fin EXCEPT !.runs[r].copy_verified = TRUE, !.runs[r].pc = "notify"]
         ELSE [fin EXCEPT !.runs[r] = NextAttempt(@)]
    /\ UNCHANGED <<orchVars, reloc, space>>

\* lines 344-385: the bulk-tag is added and the run returns True
fin_notify(r, tag_ok) ==
    /\ fin.pc = "waiting"
    /\ fin.runs[r].pc = "notify"
    /\ fin' = [add_hdd_tag(fin, tag_ok) EXCEPT !.runs[r] = FinReturn(@, "True")]
    /\ UNCHANGED <<orchVars, reloc, space>>

\* lines 386-392: the destination is removed and the run returns False
fin_fail(r) ==
    /\ fin.pc = "waiting"
    /\ fin.runs[r].pc = "failed"
    /\ fin' = [cleanup_destination(fin, r) EXCEPT !.runs[r] = FinReturn(@, "False")]
    /\ UNCHANGED <<orchVars, reloc, space>>

(***************************************************************************)
(* Spec: one life of the service, from its start (with or without a        *)
(* checkpoint to restore) to the end of its shutdown.                      *)
(***************************************************************************)
Init ==
    /\ OrchInit
    /\ max_processes = MaxWorkers
    /\ phase = "load"
    /\ boots = 1
    /\ now = 1
    /\ state_file \in {NoFile, File(EarlierCheckpoint, NumChunks)}
    /\ reloc = NoRun
    /\ space = NoPass
    /\ fin = NoFinisher

Next ==
    \/ load
    \/ restore
    \/ boot_dispatch
    \/ cleanup_state_file
    \/ \E body \in NotifyBodies : notify_torrent_finished(body)
    \/ trigger_space_management
    \/ clear_queue
    \/ \E dry_run \in BOOLEAN, list \in CopyLists : tag_existing_endpoint(dry_run, list)
    \/ \E list \in CopyLists : add_copy_operations(list)
    \/ executor_thread_takes_task
    \/ \E pid \in exec_running.torrents, success \in BOOLEAN : torrent_worker_done(pid, success)
    \/ \E ok \in BOOLEAN : space_management_done(ok)
    \/ \E i \in 1..Len(running_copy_operations), success \in BOOLEAN :
          copy_worker_done(running_copy_operations[i].id, success)
    \/ shutdown_begin
    \/ save_begin("shutdown")
    \/ save_write
    \/ save_replace
    \/ save_fail
    \/ shutdown_pools
    \/ shutdown_end

Spec == Init /\ [][Next]_vars

(***************************************************************************)
(* PersistSpec: the checkpoint over the lives of the process.  Torrents    *)
(* are announced and worked on, the state is saved on request and at       *)
(* shutdown, the process may die at any step, and it starts again.  The    *)
(* checkpoint holds nothing of the copy queue, which stays empty here.     *)
(***************************************************************************)
PersistInit ==
    /\ OrchInit
    /\ max_processes = 1
    /\ phase = "down"
    /\ boots = 0
    /\ now = 0
    /\ state_file \in {NoFile, File(ForeignCheckpoint, NumChunks)}
    /\ reloc = NoRun
    /\ space = NoPass
    /\ fin = NoFinisher

PersistNext ==
    \/ boot
    \/ load
    \/ restore
    \/ boot_dispatch
    \/ cleanup_state_file
    \/ \E body \in CheckpointedBodies : notify_torrent_finished(body)
    \/ executor_thread_takes_task
    \/ \E pid \in exec_running.torrents, success \in BOOLEAN : torrent_worker_done(pid, success)
    \/ \E ok \in BOOLEAN : space_management_done(ok)
    \/ \E caller \in {"endpoint", "shutdown"} : save_begin(caller)
    \/ save_write
    \/ save_replace
    \/ save_fail
    \/ shutdown_begin
    \/ shutdown_pools
    \/ shutdown_end
    \/ crash
    \/ tick
    \/ day_passes

PersistSpec == PersistInit /\ [][PersistNext]_vars

(***************************************************************************)
(* RelocSpec: one Relocator run, of either variant, on any of the torrents *)
(* and disks of RelocatorRuns; the service is not running.                 *)
(***************************************************************************)
RelocInit ==
    /\ OrchInit
    /\ max_processes = 1
    /\ phase = "down"
    /\ boots = 0
    /\ now = 0
    /\ state_file = NoFile
    /\ reloc \in RelocatorRuns
    /\ space = NoPass
    /\ fin = NoFinisher

RelocNext ==
    \/ \E dry_run \in BOOLEAN, found \in BOOLEAN : reloc_begin(dry_run, found)
    \/ \E api_ok \in BOOLEAN : reloc_set_location(api_ok)
    \/ \E copy_ok \in BOOLEAN : reloc_check_destination(copy_ok)
    \/ \E delete_ok \in BOOLEAN, tag_ok \in BOOLEAN : reloc_delete(delete_ok, tag_ok)
    \/ \E enabled \in BOOLEAN, tautulli \in TautulliAnswers, has_roots \in BOOLEAN,
          nlinks \in 0..MaxLinks :
          reloc_import_begin(enabled, tautulli, has_roots, nlinks)
    \/ reloc_import_verify
    \/ \E replaced_count \in 0..MaxLinks : reloc_import_replace(replaced_count)
    \/ \E found \in BOOLEAN, api_ok \in BOOLEAN : reloc_import_set_location(found, api_ok)
    \/ \E delete_ok \in BOOLEAN, tag_ok \in BOOLEAN : reloc_import_delete(delete_ok, tag_ok)

RelocSpec == RelocInit /\ [][RelocNext]_vars

(***************************************************************************)
(* RestartSpec: a service with one worker is started on a checkpoint, is   *)
(* shut down and started again.  The checkpoint it first finds is one a    *)
(* service with one worker wrote (one torrent in progress, one item of     *)
(* priority 20 waiting), or one of which a queue item has lost its         *)
(* hash_v1 on the disk.                                                    *)
(***************************************************************************)
BusyCheckpoint ==
    ServiceState(<<QueueItem(Uuid(-1), from_hash_only(HashB).val, 0, 20)>>,
                 <<ProcessInfo(Uuid(-2), HashA, 0, "running")>>,
                 ZeroStats, 0)

DamagedCheckpoint ==
    [queue_items |->
         <<PersistedQueueItem(QueueItem(Uuid(-1), from_hash_only(HashA).val, 0, 0)),
           [id |-> Uuid(-3), torrent_data |-> [name |-> "m.mkv"],
            queued_time |-> 0, priority |-> 0]>>,
     running_processes |->
         <<PersistedProcessInfo(ProcessInfo(Uuid(-2), HashB, 0, "running"))>>,
     statistics |-> ZeroStats,
     shutdown_time |-> 0,
     version |-> "1.0"]

\* the notifications that arrive after the restart
RestartBodies == {[json |-> TRUE, data |-> [hash |-> HashB, priority |-> 20]]}

RestartInit ==
    /\ OrchInit
    /\ max_processes = 1
    /\ phase = "load"
    /\ boots = 1
    /\ now = 1
    /\ state_file \in {File(BusyCheckpoint, NumChunks),
                       File(DamagedCheckpoint, NumChunks)}
    /\ reloc = NoRun
    /\ space = NoPass
    /\ fin = NoFinisher

RestartNext ==
    \/ boot
    \/ load
    \/ restore
    \/ boot_dispatch
    \/ cleanup_state_file
    \/ \E body \in RestartBodies : notify_torrent_finished(body)
    \/ executor_thread_takes_task
    \/ \E pid \in exec_running.torrents, success \in BOOLEAN : torrent_worker_done(pid, success)
    \/ \E ok \in BOOLEAN : space_management_done(ok)
    \/ shutdown_begin
    \/ save_begin("shutdown")
    \/ save_write
    \/ save_replace
    \/ save_fail
    \/ shutdown_pools
    \/ shutdown_end

RestartSpec == RestartInit /\ [][RestartNext]_vars

(***************************************************************************)
(* SpaceSpec: one reclamation pass, with the Relocator runs it makes, on   *)
(* the torrents of a client and under each configuration; the service is   *)
(* not running.  T100, T200 and T300 are the torrents of 50, 80 and 40 GiB *)
(* completed at the times 100, 200 and 300; T200 is a directory of two     *)
(* files.                                                                  *)
(***************************************************************************)
BothTags == {SSD_LOCATION_TAG, HDD_LOCATION_TAG}

T100 == Torrent("t100", <<"cache", "radarr", "m">>, 50, 100, BothTags, Data(4, 1))
T200 ==
    [Torrent("t200", <<"cache", "radarr", "m2">>, 80, 200, BothTags, Data(4, 3))
        EXCEPT !.src = Data(4, 3)]
T300 == Torrent("t300", <<"cache", "radarr", "m3">>, 40, 300, BothTags, Data(4, 1))

\* the torrents of the client, in the order it lists them
Clients ==
    {<<T300, T100, T200>>,
     <<T200, T100>>,
     <<T100>>,
     <<T300, [T200 EXCEPT !.tags = {SSD_LOCATION_TAG}], T100>>,
     <<[T200 EXCEPT !.dst = NoData], T300, [T100 EXCEPT !.completion_on = -1]>>,
     << >>}

FreeSpace == {NoReading, Reading(10), Reading(50), Reading(100), Reading(130)}

\* what the oracle answers during a pass
SpaceAnswers ==
    {Tautulli(FALSE, "none", {}),
     Tautulli(TRUE, "error", {}),
     Tautulli(TRUE, "success", {Session(<<"mnt", "ssd-cache", "radarr", "m">>, "playing")}),
     Tautulli(TRUE, "success", {Session(<<"mnt", "ssd-cache", "radarr", "m2", "e1">>, "buffering"),
                                Session(<<"mnt", "ssd-cache", "radarr", "m3">>, "stopped")}),
     Tautulli(TRUE, "success", {Session(<<"mnt", "library", "x">>, "playing"),
                                Session(<<"mnt", "ssd-cache", "radarr", "m3">>, "paused")})}

SpaceInit ==
    /\ OrchInit
    /\ max_processes = 1
    /\ phase = "down"
    /\ boots = 0
    /\ now = 0
    /\ state_file = NoFile
    /\ reloc = NoRun
    /\ space \in {Pass(available_gb, torrents, tagging, import_mode, dry_run) :
                      available_gb \in FreeSpace, torrents \in Clients,
                      tagging \in BOOLEAN, import_mode \in BOOLEAN,
                      dry_run \in BOOLEAN}
    /\ fin = NoFinisher

SpaceNext ==
    \/ \E api_ok \in BOOLEAN : space_collect(api_ok)
    \/ space_next_candidate
    \/ space_import_returned
    \/ space_plain_returned
    \/ \E found \in BOOLEAN : reloc_begin(space.dry_run, found)
    \/ \E api_ok \in BOOLEAN : reloc_set_location(api_ok)
    \/ \E copy_ok \in BOOLEAN : reloc_check_destination(copy_ok)
    \/ \E delete_ok \in BOOLEAN, tag_ok \in BOOLEAN : reloc_delete(delete_ok, tag_ok)
    \/ \E tautulli \in SpaceAnswers, has_roots \in BOOLEAN, nlinks \in 0..MaxLinks :
          reloc_import_begin(space.import_mode, tautulli, has_roots, nlinks)
    \/ reloc_import_verify
    \/ \E replaced_count \in 0..MaxLinks : reloc_import_replace(replaced_count)
    \/ \E found \in BOOLEAN, api_ok \in BOOLEAN : reloc_import_set_location(found, api_ok)
    \/ \E delete_ok \in BOOLEAN, tag_ok \in BOOLEAN : reloc_import_delete(delete_ok, tag_ok)

SpaceSpec == SpaceInit /\ [][SpaceNext]_vars

(***************************************************************************)
(* FinisherSpec: the same notification has been posted twice for one       *)
(* torrent, and the pool, of one or two threads, works on the two queue    *)
(* items; the descriptor is complete, or minimal (hash only), or has no    *)
(* size.                                                                   *)
(***************************************************************************)
Descriptors ==
    {from_qbittorrent_params(FullParams(HashA)).val,
     from_hash_only(HashA).val,
     [from_qbittorrent_params(FullParams(HashA)).val EXCEPT !.size = 0]}

FinisherInit ==
    /\ OrchInit
    /\ max_processes = 1
    /\ phase = "down"
    /\ boots = 0
    /\ now = 0
    /\ state_file = NoFile
    /\ reloc = NoRun
    /\ space = NoPass
    /\ fin \in {Finisher(descriptor, workers, known, src, dst, tagging, auto_tag,
                         dry_run, ssd_tag) :
                    descriptor \in Descriptors, workers \in 1..2,
                    known \in BOOLEAN, src \in {Data(4, 1), Data(4, 3)},
                    dst \in {NoData, Data(4, 1), Data(2, 1)},
                    tagging \in BOOLEAN, auto_tag \in BOOLEAN,
                    dry_run \in BOOLEAN, ssd_tag \in BOOLEAN}

FinisherNext ==
    \/ \E r \in 1..2 : fin_start(r)
    \/ \E r \in 1..2, api_ok \in BOOLEAN, tag_ok \in BOOLEAN : fin_hydrate(r, api_ok, tag_ok)
    \/ \E r \in 1..2 : fin_precheck(r)
    \/ \E r \in 1..2 : fin_copy_begin(r)
    \/ \E r \in 1..2, copy_ok \in BOOLEAN : fin_copy_end(r, copy_ok)
    \/ \E r \in 1..2 : fin_verify(r)
    \/ \E r \in 1..2, tag_ok \in BOOLEAN : fin_notify(r, tag_ok)
    \/ \E r \in 1..2 : fin_fail(r)

FinisherSpec == FinisherInit /\ [][FinisherNext]_vars

(***************************************************************************)
(* ApiSpec: one life of a service with one worker, reached through its     *)
(* HTTP server: every request passes the middleware, with or without the   *)
(* key, and the notifications carry well-formed and malformed bodies.  No  *)
(* request reaches add_copy_operations; copy batches are handed to it      *)
(* directly.  The service starts without a checkpoint, on one of an        *)
(* earlier life, or on one whose file has been damaged.                    *)
(***************************************************************************)
NonHexHash == Rep("g", 40)

\* a body that is no JSON text, and the JSON objects posted
ApiBodies ==
    {[json |-> FALSE]}
    \cup {[json |-> TRUE, data |-> d] :
            d \in {[priority |-> 5],
                   [hash |-> EmptyStr],
                   [hash |-> HashA],
                   [hash |-> BadLenHash],
                   [hash |-> NonHexHash],
                   [hash |-> HashB, params |-> FullParams(HashB)],
                   [hash |-> HashA, params |-> FullParams(HashB)],
                   [hash |-> HashA, params |-> FullParams(NonHexHash)],
                   [hash |-> HashA, params |-> [name |-> "m.mkv"]]}}

\* the X-API-Key header and the api_key query parameter of a request
Keys ==
    {<<Absent, Absent>>, <<"wrong", Absent>>, <<Absent, "wrong">>,
     <<HTTP_API_KEY, Absent>>, <<Absent, HTTP_API_KEY>>, <<"", HTTP_API_KEY>>,
     <<"wrong", HTTP_API_KEY>>, <<HTTP_API_KEY, "wrong">>}

NoBody == [json |-> FALSE]

ApiRequests ==
    {Request("/health", k[1], k[2], NoBody) : k \in Keys}
    \cup {Request("/notify/torrent-finished", HTTP_API_KEY, Absent, b) :
            b \in ApiBodies}
    \cup {Request(path, k[1], k[2], NoBody) :
            path \in {"/space-management/trigger", "/queue/clear",
                      "/tags/existing"},
            k \in Keys}

\* the checkpoint of an earlier life that had counted its work
CountedCheckpoint ==
    ServiceState(<<QueueItem(Uuid(-1), from_qbittorrent_params(FullParams(HashA)).val,
                             0, 0)>>,
                 << >>,
                 [ZeroStats EXCEPT !.torrents_processed = 2,
                                   !.space_management_runs = 1,
                                   !.api_requests = 5],
                 0)

\* checkpoints with an infohash that is none: in the second queue item, or
\* in the record of the torrent in progress
TamperedItem ==
    [queue_items |->
         <<PersistedQueueItem(QueueItem(Uuid(-1), from_hash_only(HashB).val, 0, 0)),
           [id |-> Uuid(-3),
            torrent_data |-> [to_dict(from_hash_only(HashA).val)
                                  EXCEPT !.hash_v1 = NonHexHash],
            queued_time |-> 0, priority |-> 0]>>,
     running_processes |-> << >>,
     statistics |-> ZeroStats,
     shutdown_time |-> 0,
     version |-> "1.0"]

TamperedRecord ==
    [queue_items |->
         <<PersistedQueueItem(QueueItem(Uuid(-1), from_hash_only(HashB).val, 0, 0))>>,
     running_processes |->
         <<PersistedProcessInfo(ProcessInfo(Uuid(-2), BadLenHash, 0, "running"))>>,
     statistics |-> ZeroStats,
     shutdown_time |-> 0,
     version |-> "1.0"]

ApiInit ==
    /\ OrchInit
    /\ max_processes = 1
    /\ phase = "load"
    /\ boots = 1
    /\ now = 1
    /\ state_file \in {NoFile, File(CountedCheckpoint, NumChunks),
                       File(TamperedItem, NumChunks),
                       File(TamperedRecord, NumChunks)}
    /\ reloc = NoRun
    /\ space = NoPass
    /\ fin = NoFinisher

ApiNext ==
    \/ load
    \/ restore
    \/ boot_dispatch
    \/ cleanup_state_file
    \/ \E request \in ApiRequests : auth_middleware(request)
    \/ Admitted("/notify/torrent-finished") /\ notify_torrent_finished(http.body)
    \/ Admitted("/space-management/trigger") /\ trigger_space_management
    \/ Admitted("/queue/clear") /\ clear_queue
    \/ /\ Admitted("/tags/existing")
       /\ \E dry_run \in BOOLEAN, list \in CopyLists : tag_existing_endpoint(dry_run, list)
    \/ \E list \in CopyLists : add_copy_operations(list)
    \/ executor_thread_takes_task
    \/ \E pid \in exec_running.torrents, success \in BOOLEAN : torrent_worker_done(pid, success)
    \/ \E ok \in BOOLEAN : space_management_done(ok)
    \/ \E i \in 1..Len(running_copy_operations), success \in BOOLEAN :
          copy_worker_done(running_copy_operations[i].id, success)

ApiSpec == ApiInit /\ [][ApiNext]_vars

(***************************************************************************)
(* TierSpec: one torrent on the two tiers.  Its notification is in the     *)
(* queue twice (posted and replayed, or posted and restored from a         *)
(* checkpoint), the pool runs the Finisher on each item, and a reclamation *)
(* pass may run the plain Relocator on the torrent once, at any time no    *)
(* Finisher run is at work.  fin holds the disk; while the Relocator runs, *)
(* reloc does, and the disk is handed back when it returns.                *)
(***************************************************************************)
\* the torrent as the client lists it to the pass
ListedTorrent(f) ==
    [Torrent(f.descriptor.name, <<"cache", "radarr", "m">>, 50, 100,
             (IF f.ssd_tag THEN {SSD_LOCATION_TAG} ELSE {})
                 \cup (IF f.hdd_tag THEN {HDD_LOCATION_TAG} ELSE {}),
             f.dst)
        EXCEPT !.src = f.src]

\* the data of the torrent on the two tiers
Tiers ==
    IF reloc.pc \in {"none", "returned"}
    THEN [src |-> fin.src, dst |-> fin.dst]
    ELSE [src |-> reloc.src, dst |-> reloc.dst]

\* core.py lines 420-439 and 550: the pass finds the torrent among those of
\* the cache and calls the plain variant on it
manage_ssd_space_relocates ==
    /\ fin.pc = "waiting"
    /\ Active(fin) = {}
    /\ reloc = NoRun
    /\ ssd_torrents(<<ListedTorrent(fin)>>, fin.tagging) # << >>
    /\ reloc' = RunOn(ListedTorrent(fin), "plain", fin.tagging)
    /\ UNCHANGED <<orchVars, space, fin>>

\* the plain variant has returned to the pass: the disk and the tags are as
\* it left them
manage_ssd_space_relocated ==
    /\ fin.pc = "waiting"
    /\ reloc.pc = "done"
    /\ fin' = [fin EXCEPT !.src = reloc.src, !.dst = reloc.dst,
                          !.ssd_tag = reloc.ssd_tag]
    /\ reloc' = [reloc EXCEPT !.pc = "returned"]
    /\ UNCHANGED <<orchVars, space>>

TierInit ==
    /\ OrchInit
    /\ max_processes = 1
    /\ phase = "down"
    /\ boots = 0
    /\ now = 0
    /\ state_file = NoFile
    /\ reloc = NoRun
    /\ space = NoPass
    /\ fin \in {Finisher(from_qbittorrent_params(FullParams(HashA)).val, 1, TRUE,
                         src, NoData, tagging, TRUE, dry_run, FALSE) :
                    src \in {Data(4, 1), Data(4, 3)}, tagging \in BOOLEAN,
                    dry_run \in BOOLEAN}

TierNext ==
    \/ \E r \in 1..2 : reloc.pc \in {"none", "returned"} /\ fin_start(r)
    \/ \E r \in 1..2, tag_ok \in BOOLEAN : fin_hydrate(r, TRUE, tag_ok)
    \/ \E r \in 1..2 : fin_precheck(r)
    \/ \E r \in 1..2 : fin_copy_begin(r)
    \/ \E r \in 1..2, copy_ok \in BOOLEAN : fin_copy_end(r, copy_ok)
    \/ \E r \in 1..2 : fin_verify(r)
    \/ \E r \in 1..2, tag_ok \in BOOLEAN : fin_notify(r, tag_ok)
    \/ \E r \in 1..2 : fin_fail(r)
    \/ manage_ssd_space_relocates
    \/ \E found \in BOOLEAN : reloc_begin(fin.dry_run, found)
    \/ \E api_ok \in BOOLEAN : reloc_set_location(api_ok)
    \/ \E copy_ok \in BOOLEAN : reloc_check_destination(copy_ok)
    \/ \E delete_ok \in BOOLEAN, tag_ok \in BOOLEAN : reloc_delete(delete_ok, tag_ok)
    \/ manage_ssd_space_relocated

TierSpec == TierInit /\ [][TierNext]_vars

(***************************************************************************)
(* LiveSpec: a service of one or two workers that starts without a         *)
(* checkpoint and is never cleared nor shut down.  Notifications and       *)
(* copy batches arrive as they please; the pools are fair: a               *)
(* task that waits for a free thread gets one, and every worker run ends.  *)
(***************************************************************************)
LiveInit ==
    /\ OrchInit
    /\ max_processes \in 1..MaxWorkers
    /\ phase = "load"
    /\ boots = 1
    /\ now = 1
    /\ state_file = NoFile
    /\ reloc = NoRun
    /\ space = NoPass
    /\ fin = NoFinisher

torrent_worker_ends ==
    \E pid \in exec_running.torrents, success \in BOOLEAN : torrent_worker_done(pid, success)

space_management_ends ==
    \E ok \in BOOLEAN : space_management_done(ok)

copy_worker_ends ==
    \E i \in 1..Len(running_copy_operations), success \in BOOLEAN :
        copy_worker_done(running_copy_operations[i].id, success)

LiveNext ==
    \/ load
    \/ \E body \in NotifyBodies : notify_torrent_finished(body)
    \/ \E list \in CopyLists : add_copy_operations(list)
    \/ executor_thread_takes_task
    \/ torrent_worker_ends
    \/ space_management_ends
    \/ copy_worker_ends

LiveSpec ==
    /\ LiveInit /\ [][LiveNext]_vars
    /\ WF_vars(load)
    /\ WF_vars(executor_thread_takes_task)
    /\ WF_vars(torrent_worker_ends)
    /\ WF_vars(space_management_ends)
    /\ WF_vars(copy_worker_ends)

(***************************************************************************)
(* QueueSpec: the torrent queue of one life of the service under           *)
(* notifications whose priority field is whatever the client wrote: no     *)
(* priority, a number, or a value that is no number.  Items are            *)
(* dispatched, workers end, the queue is cleared.                          *)
(***************************************************************************)
PriorityData ==
    {[hash |-> HashA],
     [hash |-> HashB, priority |-> 20],
     [hash |-> HashA, priority |-> NonNumber]}

PriorityBodies == {[json |-> TRUE, data |-> d] : d \in PriorityData}

QueueInit ==
    /\ OrchInit
    /\ max_processes \in 1..MaxWorkers
    /\ phase = "load"
    /\ boots = 1
    /\ now = 1
    /\ state_file = NoFile
    /\ reloc = NoRun
    /\ space = NoPass
    /\ fin = NoFinisher

QueueNext ==
    \/ load
    \/ \E body \in PriorityBodies : notify_torrent_finished(body)
    \/ clear_queue
    \/ executor_thread_takes_task
    \/ torrent_worker_ends
    \/ space_management_ends

QueueSpec == QueueInit /\ [][QueueNext]_vars

(***************************************************************************)
(* The Relocator's promises about the delete (RelocSpec).                  *)
(***************************************************************************)

\* C1: a Relocator run of either variant deletes the cache data of a torrent
\* only if the bulk destination exists and verifies against that data (the
\* same size, and for a directory the same item count), also when the
\* destination was already there when the run started.
C1_DeleteOnlyVerified ==
    reloc.deleted =>
        /\ reloc.dst.exists
        /\ verify_copy(reloc.removed, reloc.dst, reloc.removed.items > 1)

\* C2: a Relocator run of either variant deletes cache data only if its real
\* path lies strictly inside the cache-root; a content path that is the
\* cache-root itself, or outside it, is never deleted.
C2_DeleteOnlyStrictlyInside ==
    reloc.deleted => StrictlyInside(reloc.path, CacheRoot)

(***************************************************************************)
(* The orchestrator's promises (Spec).                                     *)
(***************************************************************************)

\* C3: at any time the number of torrent jobs in state RUNNING is at most
\* max_concurrent_processes, and the number of copy jobs in state RUNNING is
\* at most max_concurrent_copy_operations.
C3_RunningWithinLimits ==
    /\ Cardinality({i \in DOMAIN running_processes :
                       running_processes[i].status = "running"}) <= max_processes
    /\ Cardinality({i \in DOMAIN running_copy_operations :
                       running_copy_operations[i].status = "running"})
         <= MAX_CONCURRENT_COPY_OPERATIONS

\* both pools are filled to their limit
C3_BothPoolsFull ==
    /\ Cardinality({i \in DOMAIN running_processes :
                       running_processes[i].status = "running"}) = max_processes
    /\ Cardinality({i \in DOMAIN running_copy_operations :
                       running_copy_operations[i].status = "running"})
         = MAX_CONCURRENT_COPY_OPERATIONS

\* C4: for any one infohash at most one run is executing at any time: no two
\* worker threads work on torrents of the same hash.
C4_OneRunPerHash ==
    \A p, q \in exec_running.torrents :
        LET HashOf(pid) ==
                LET i == CHOOSE k \in DOMAIN running_processes :
                             running_processes[k].id = pid
                IN  running_processes[i].torrent_hash
        IN  p # q => HashOf(p) # HashOf(q)

\* C5: at most one space-reclamation pass is executing at any time.
C5_OneSpacePass == exec_running.space <= 1

C7_ShutdownRejectsNewWork ==
    [][(/\ shutdown_in_progress
        /\ \/ reply'.op = "notify" /\ reply'.status # 400
           \/ reply'.op = "add_copy_operations")
       => /\ reply'.text = "RuntimeError"
          /\ UNCHANGED <<process_queue, running_processes, copy_queue,
                         running_copy_operations, stats>>]_vars

\* a notification was turned away during shutdown while jobs were on record
C7_NotificationTurnedAway ==
    /\ shutdown_in_progress
    /\ reply.op = "notify"
    /\ reply.text = "RuntimeError"
    /\ running_processes # << >>

(***************************************************************************)
(* The checkpoint's promises (PersistSpec).                                *)
(***************************************************************************)

\* C8: save, then load and restore into a fresh orchestrator, gives a pending
\* queue that holds every saved queue item with the same id, descriptor,
\* enqueue time and priority, and exactly one priority-10 item for every
\* record that was RUNNING at the save, and nothing else.
C8_RestoreRoundTrip ==
    phase = "dispatch" =>
        LET was == saved.committed
            Restored(p) ==
                {i \in DOMAIN process_queue :
                    /\ process_queue[i].id = RestoredId(p.id)
                    /\ process_queue[i].priority = 10
                    /\ process_queue[i].torrent.hash_v1 = p.torrent_hash}
        IN  /\ was.valid
            /\ \A k \in DOMAIN was.q :
                   Cardinality({i \in DOMAIN process_queue :
                                   process_queue[i] = was.q[k]}) = 1
            /\ \A k \in DOMAIN was.running :
                   Cardinality(Restored(was.running[k])) = 1
            /\ Len(process_queue) = Len(was.q) + Len(was.running)

\* a checkpoint with a waiting item that carries a full descriptor, and with
\* a torrent in progress, has been restored
C8_RestoredItemAndInterruptedJob ==
    /\ phase = "dispatch"
    /\ saved.committed.running # << >>
    /\ \E k \in DOMAIN saved.committed.q :
           saved.committed.q[k].torrent.name # ""

\* C9: at every instant, also after a crash at any step of a save, the
\* checkpoint file is absent or is a complete checkpoint.
C9_CheckpointAbsentOrComplete ==
    state_file.exists => state_file.written = NumChunks

\* the process died in the middle of writing a checkpoint while an earlier
\* checkpoint of this program was in place
C9_DiedWhileWriting ==
    /\ phase = "down"
    /\ temp_file.exists
    /\ temp_file.written < NumChunks
    /\ state_file.exists
    /\ state_file.data.version = "1.0"

\* C10: load_orchestrator_state returns the state of a checkpoint of version
\* 1.0 that is at most 24 hours old; for any other version or a greater age
\* it returns none and nothing is restored.
C10_LoadsOnlyFreshVersionOne ==
    [][(phase = "load" /\ phase' # "down" /\ state_file.exists)
       => IF /\ state_file.data.version = "1.0"
             /\ now - state_file.data.shutdown_time <= 24 * 3600
          THEN /\ loaded'.ok
               /\ loaded'.queue_items = state_file.data.queue_items
               /\ loaded'.running_processes = state_file.data.running_processes
               /\ phase' = "restore"
          ELSE /\ ~loaded'.ok
               /\ phase' = "serving"
               /\ process_queue' = << >>]_vars

\* the service runs with nothing restored although a checkpoint of version
\* 1.0, more than 24 hours old, is in place
C10_StaleCheckpointIgnored ==
    /\ phase = "serving"
    /\ boots = 2
    /\ process_queue = << >>
    /\ running_processes = << >>
    /\ state_file.exists
    /\ state_file.data.version = "1.0"
    /\ state_file.data.queue_items # << >>
    /\ now - state_file.data.shutdown_time > 24 * 3600

(***************************************************************************)
(* The promises about the restart (RestartSpec).                           *)
(***************************************************************************)

\* C11: on start with a valid checkpoint, the checkpoint file is deleted only
\* after every checkpointed queue item and every checkpointed RUNNING record
\* has been put back into the pending queue (from where the dispatcher may
\* already have popped it); when restoring fails part-way the file is kept.
C11_DeletedOnlyAfterFullRestore ==
    [][(state_file.exists /\ ~state_file'.exists)
       => LET back == {process_queue[i].id : i \in DOMAIN process_queue}
                          \cup {popLog[i].id : i \in DOMAIN popLog}
              items == state_file.data.queue_items
              procs == state_file.data.running_processes
          IN  /\ \A k \in DOMAIN items : items[k].id \in back
              /\ \A k \in DOMAIN procs : RestoredId(procs[k].id) \in back]_vars

\* C12: after restore-on-start, every item re-enqueued from an interrupted
\* RUNNING record is dispatched before any item enqueued by a notification
\* received after the restart, whatever priority the notification carries: no
\* such item is popped while a re-enqueued one is waiting.
C12_RestoredBeforeFresh ==
    \A i \in DOMAIN popLog :
        (popLog[i].id[1] = "" /\ popLog[i].id[2] > 0)
            => \A p \in popLog[i].pending : p[1] # "restored-"

(***************************************************************************)
(* The promises about the reclamation pass (SpaceSpec).                    *)
(***************************************************************************)
\* the place of a torrent in the list of candidates, oldest first
Place(h) == CHOOSE k \in DOMAIN space.sorted : space.sorted[k].torrent_info.hash = h

\* the oracle answered with a session in a streaming state whose file lies at
\* or under the content path of torrent t, as Plex names that path
ReportsSessionUnder(tautulli, t) ==
    /\ tautulli.configured /\ tautulli.result = "success"
    /\ \E x \in tautulli.sessions :
          /\ x.state \in {"playing", "paused", "buffering"}
          /\ IsPrefix(convert_local_path_to_plex_path(t.content_path), x.file)

\* C13: in import-script mode, a candidate for which the oracle reported a
\* playing, paused or buffering session on a file under its cache path is
\* returned as "streaming": the pass has not paused, moved or deleted it, has
\* not called the plain Relocator on it, and has gone on to the next candidate.
C13_StreamingCandidateSkipped ==
    space.pc \in {"loop", "relocating", "done"} /\ space.import_mode =>
        \A k \in DOMAIN space.sorted :
            LET t == space.sorted[k].torrent_info
                d == space.did[t.hash]
            IN  (d.import # "none" /\ ReportsSessionUnder(d.oracle, t))
                    => /\ d.import = "streaming"
                       /\ d.plain = "none"
                       /\ ~d.paused /\ d.location = "cache" /\ ~d.deleted
                       /\ space.i > k

\* a candidate was skipped as streaming and a younger one relocated after it
C13_SkippedThenRelocatedNext ==
    /\ space.pc = "done" /\ space.import_mode
    /\ \E k \in DOMAIN space.sorted, j \in DOMAIN space.sorted :
          LET t == space.sorted[k].torrent_info
              u == space.sorted[j].torrent_info
          IN  /\ k < j
              /\ ReportsSessionUnder(space.did[t.hash].oracle, t)
              /\ space.did[t.hash].import = "streaming"
              /\ space.did[u.hash].deleted

\* the candidates of the pass that no run has skipped, and their sizes
NonSkipped ==
    {k \in DOMAIN space.sorted :
        space.did[space.sorted[k].torrent_info.hash].import \notin
            {"streaming", "no_symlinks", "no_links", "no_hdd_copy", "no_config"}}

RECURSIVE SizeSum(_)
SizeSum(hashes) ==
    IF hashes = << >> THEN 0
    ELSE space.sorted[Place(Head(hashes))].size + SizeSum(Tail(hashes))

RelocatedSet == {space.relocated[n] : n \in DOMAIN space.relocated}

\* every non-skipped candidate older than a relocated one is relocated
\* itself, and earlier
OldestFirst ==
    /\ \A n, m \in DOMAIN space.relocated :
          n < m => space.sorted[Place(space.relocated[n])].timestamp
                      <= space.sorted[Place(space.relocated[m])].timestamp
    /\ \A n \in DOMAIN space.relocated, k \in NonSkipped :
          space.sorted[k].timestamp < space.sorted[Place(space.relocated[n])].timestamp
              => space.sorted[k].torrent_info.hash \in RelocatedSet

NeededGb == DISK_SPACE_THRESHOLD_GB - space.available_gb.gb

\* C14 as stated: when a pass has ended, what it relocated is the shortest
\* oldest-first prefix of the non-skipped candidates whose sizes sum to at
\* least threshold minus available, and nothing where available >= threshold.
C14_ShortestSufficientPrefix ==
    (space.pc = "done" /\ space.available_gb.ok) =>
        IF space.available_gb.gb >= DISK_SPACE_THRESHOLD_GB
        THEN space.relocated = << >>
        ELSE /\ OldestFirst
             /\ SizeSum(space.relocated) >= NeededGb
             /\ \A n \in DOMAIN space.relocated :
                   SizeSum(SubSeq(space.relocated, 1, n - 1)) < NeededGb

\* C14, amended: what a pass has relocated is always an oldest-first prefix of
\* the non-skipped candidates of which no proper prefix reaches the need, and
\* nothing where available >= threshold or unknown; when the pass has ended,
\* the sizes sum to at least the need unless the list of torrents could not
\* be had, the candidates ran out, or a relocation failed and stopped the pass.
C14_PrefixUntilFreed ==
    /\ space.pc \in {"start", "idle"} \/ ~space.available_gb.ok
          \/ space.available_gb.gb >= DISK_SPACE_THRESHOLD_GB
          => space.relocated = << >>
    /\ space.pc \in {"loop", "relocating", "done"} /\ space.relocated # << >> =>
          /\ OldestFirst
          /\ \A n \in DOMAIN space.relocated :
                SizeSum(SubSeq(space.relocated, 1, n - 1)) < NeededGb
    /\ space.pc = "done" /\ space.ended = "exhausted"
          => NonSkipped = {Place(h) : h \in RelocatedSet}
    /\ space.pc = "done"
          /\ space.ended \notin {"no_reading", "enough_space", "no_list",
                                 "no_candidates", "exhausted", "failure"}
          => SizeSum(space.relocated) >= NeededGb

\* the example: listed youngest first, 90 GiB are needed, the torrents of the
\* times 100 and 200 are relocated (130 GiB) and that of 300 is not touched
C14_TwoOldestRelocated ==
    /\ space.pc = "done" /\ space.ended = "freed"
    /\ space.torrents = <<T300, T100, T200>>
    /\ space.available_gb = Reading(10)
    /\ space.relocated = <<"t100", "t200">>
    /\ space.space_freed_gb = 130
    /\ space.did["t300"] = Untouched

\* C15: a candidate whose relocation returned a skip-reason is left as it
\* was and the pass has gone on to the next one; a candidate whose relocation
\* ended in failure (the plain variant returned False, alone or after the
\* stream-aware one returned "error") ended the pass, and no candidate after
\* it has been paused, moved or deleted.
C15_SkipGoesOnErrorStops ==
    space.pc \in {"loop", "relocating", "done"} =>
        \A k \in DOMAIN space.sorted :
            LET d == space.did[space.sorted[k].torrent_info.hash]
            IN  /\ d.import \in {"streaming", "no_symlinks", "no_links",
                                 "no_hdd_copy", "no_config"}
                      => space.i > k /\ d.plain = "none"
                /\ d.plain = "False"
                      => /\ space.pc = "done" /\ space.ended = "failure"
                         /\ space.i = k
                         /\ reloc.pc = "done"
                         /\ \A j \in DOMAIN space.sorted :
                               j > k => space.did[space.sorted[j].torrent_info.hash]
                                            = Untouched

\* the oldest candidate was skipped, the pass went on to the second, whose
\* relocation failed after the stream-aware variant returned "error", and the
\* third was never touched
C15_SkippedThenFailed ==
    /\ space.pc = "done" /\ space.ended = "failure"
    /\ Len(space.sorted) = 3
    /\ space.did[space.sorted[1].torrent_info.hash].import = "no_links"
    /\ space.did[space.sorted[2].torrent_info.hash].import = "error"
    /\ space.did[space.sorted[2].torrent_info.hash].plain = "False"
    /\ space.did[space.sorted[3].torrent_info.hash] = Untouched

(***************************************************************************)
(* The Relocator's promises about links and tags (RelocSpec).              *)
(***************************************************************************)

\* C16: a run of the stream-aware Relocator that found symbolic links and
\* could not rewrite every one of them deletes no cache data and, once it has
\* returned, has returned "error": where it has deleted, no symbolic link
\* that it found is left pointing at the cache.
C16_AllLinksRewrittenOrNoDelete ==
    (reloc.variant = "import_script" /\ reloc.failed_links > 0)
        => /\ ~reloc.deleted
           /\ reloc.pc = "done" => reloc.result = "error"

\* C17: when a Relocator run of either variant has returned success, the
\* torrent does not have the cache-tag, has the bulk-tag, and nothing exists
\* at its cache source path.
C17_AfterRelocatorSuccess ==
    (reloc.pc = "done" /\ reloc.result \in {"True", "success"})
        => /\ ~reloc.ssd_tag
           /\ reloc.hdd_tag
           /\ ~reloc.src.exists

(***************************************************************************)
(* The Finisher's promises (FinisherSpec).                                 *)
(***************************************************************************)

\* C18: when a Finisher run has returned success for a torrent, the bulk-tag
\* is among the tags of that torrent.
C18_BulkTagAfterFinisherSuccess ==
    \A r \in DOMAIN fin.runs :
        (fin.runs[r].pc = "done" /\ fin.runs[r].result = "True") => fin.hdd_tag

\* C19: of the two runs the same notification posted twice leads to, at
\* most one performs a copy, however the pool interleaves them, as long as no
\* copy fails: the other finds the content verifiable at bulk, takes the
\* short-circuit and writes or removes nothing on bulk.
C19_AtMostOneRunCopies ==
    (\A r \in DOMAIN fin.runs : fin.runs[r].error # "OSError")
        => \A r, q \in DOMAIN fin.runs :
              (r # q /\ fin.runs[r].copies > 0)
                  => /\ fin.runs[q].copies = 0
                     /\ ~fin.runs[q].wrote
                     /\ fin.runs[q].pc \in {"notify", "done"}
                           => fin.runs[q].short_circuit

\* C20: a run of the pool on a minimal descriptor whose hash the client
\* knows and answers for has fetched the torrent-info and filled the
\* descriptor before it copies or tags, and then ends as a run on a complete
\* descriptor does: with success exactly when the copy verified.
C20_MinimalDescriptorHydrated ==
    \A r \in DOMAIN fin.runs :
        (~has_complete_data(fin.descriptor) /\ fin.known
            /\ fin.runs[r].pc \notin {"idle", "start"}
            /\ fin.runs[r].error # "APIError")
            => /\ fin.runs[r].hydrated
               /\ fin.runs[r].pc = "done"
                     => (fin.runs[r].result = "True") = fin.runs[r].copy_verified

(***************************************************************************)
(* The promises about the HTTP boundary (ApiSpec).                         *)
(***************************************************************************)
\* a string of length 32, 40 or 64 made only of the characters 0-9, a-f, A-F
IsInfohash(h) ==
    /\ h # None
    /\ Len(h) \in {32, 40, 64}
    /\ \A i \in 1..Len(h) :
          h[i] \in {"0", "1", "2", "3", "4", "5", "6", "7", "8", "9",
                    "a", "b", "c", "d", "e", "f", "A", "B", "C", "D", "E", "F"}

\* every infohash the orchestrator holds is one
HeldHashesAreInfohashes ==
    /\ \A i \in DOMAIN process_queue :
          /\ IsInfohash(process_queue[i].torrent.hash_v1)
          /\ process_queue[i].torrent.hash_v2 # None
                => IsInfohash(process_queue[i].torrent.hash_v2)
    /\ \A i \in DOMAIN running_processes :
          IsInfohash(running_processes[i].torrent_hash)

\* the body of a notification names the torrent by an infohash, and so do
\* its params if it has any
OffersInfohash(body) ==
    /\ body.json
    /\ IsInfohash(Get(body.data, "hash", None))
    /\ "params" \in DOMAIN body.data
          => IsInfohash(Get(body.data.params, "hash",
                            Get(body.data.params, "hash_v1", EmptyStr)))

C22_KeyOpensHandler ==
    [][\A request \in ApiRequests :
          auth_middleware(request) =>
              IF request.path = "/health"
              THEN reply'.op = "health" /\ reply'.status = 200
              ELSE IF request.header = HTTP_API_KEY \/ request.query = HTTP_API_KEY
              THEN http'.pc = "admitted" /\ http'.path = request.path
              ELSE /\ reply'.status = 401
                   /\ http'.pc = "idle"
                   /\ UNCHANGED <<process_queue, running_processes, copy_queue,
                                  running_copy_operations, exec_queue,
                                  shutdown_in_progress, stats>>]_vars

\* C23: a POST /notify/torrent-finished whose body is not valid JSON, whose
\* hash is missing or malformed, or whose params carry a malformed or missing
\* hash, is answered with status 400 and enqueues nothing.
C23_BadNotificationIs400 ==
    [][(/\ Admitted("/notify/torrent-finished")
        /\ reply'.op = "notify"
        /\ ~OffersInfohash(http.body))
       => /\ reply'.status = 400
          /\ UNCHANGED <<process_queue, running_processes, popLog>>]_vars

\* C24: each statistics counter (torrents_processed, space_management_runs,
\* api_requests, copy operations completed, copy operations failed) is
\* non-decreasing over every operation of one process lifetime, including
\* restore-on-start.
C24_CountersNeverDecrease ==
    [][phase' # "down"
       => /\ stats'.torrents_processed >= stats.torrents_processed
          /\ stats'.space_management_runs >= stats.space_management_runs
          /\ stats'.api_requests >= stats.api_requests
          /\ stats'.copy_operations_completed >= stats.copy_operations_completed
          /\ stats'.copy_operations_failed >= stats.copy_operations_failed]_vars

\* a service that restored the counters of an earlier life has gone on
\* counting: torrents, reclamation passes, requests and a copy operation
C24_CountedOnAfterRestore ==
    /\ popLog # << >> /\ popLog[1].id = Uuid(-1) /\ popLog[1].hash = HashA
    /\ stats.torrents_processed = 3
    /\ stats.space_management_runs = 2
    /\ stats.api_requests = MaxRequests
    /\ stats.copy_operations_completed + stats.copy_operations_failed = 1

(***************************************************************************)
(* The promises about the shutdown and the dispatcher (Spec).              *)
(***************************************************************************)
\* the steps of a graceful shutdown, in the order promised
ShutdownSteps == <<"flag", "checkpoint", "wait", "pools", "logout">>

PlaceOfStep(step) == CHOOSE k \in DOMAIN ShutdownSteps : ShutdownSteps[k] = step

\* C25: every graceful shutdown run terminates after performing, in this
\* order, set shutdown flag, write checkpoint, bounded wait for drain, request
\* pool termination, log out of the torrent client; it reaches the logout
\* also when torrent or copy records are present in the running maps at
\* shutdown.  (A step that has nothing to act on may be left out: no wait and
\* no pool termination without records, no logout without a session.)
C25_ShutdownReachesLogout ==
    shutdown_log.ended =>
        /\ shutdown_log.error = "none"
        /\ \A i, j \in DOMAIN shutdown_log.steps :
              i < j => PlaceOfStep(shutdown_log.steps[i])
                         < PlaceOfStep(shutdown_log.steps[j])
        /\ shutdown_log.steps[1] = "flag"
        /\ shutdown_log.had_client
              => shutdown_log.steps[Len(shutdown_log.steps)] = "logout"


\* the records of the map that are in state RUNNING
RunningRecords ==
    {i \in DOMAIN running_processes : running_processes[i].status = "running"}

\* C27: once an operation that runs the dispatcher (enqueue, completion
\* callback, restore) has returned, no item waits in the torrent queue while
\* fewer than max_concurrent_processes records are RUNNING: the completed
\* and failed records kept in the map take no capacity
C27_NoItemWaitsBelowCapacity ==
    phase \in {"cleanup", "serving"} =>
        ~(/\ process_queue # << >>
          /\ Cardinality(RunningRecords) < max_processes)

(***************************************************************************)
(* The promise about the two tiers (TierSpec).                             *)
(***************************************************************************)
\* C26: whatever Finisher runs, Relocator run and replayed or restored
\* notifications the torrent has met, its content is on the cache tier or on
\* the bulk tier: the bulk copy of a torrent whose cache copy is gone is
\* never removed
C26_OneCopyAlwaysExists ==
    Tiers.src.exists \/ Tiers.dst.exists


(***************************************************************************)
(* The promises about progress (LiveSpec).                                 *)
(***************************************************************************)
\* the item of this id waits in the torrent queue
Accepted(id) == \E i \in DOMAIN process_queue : process_queue[i].id = id

\* the dispatcher has popped the item of this id and handed it to the pool
Dispatched(id) == \E i \in DOMAIN popLog : popLog[i].id = id

\* C28: with fair pools whose worker runs all end, and without clear_queue
\* and shutdown, every item add_to_queue accepted is dispatched to a worker
\* in the end, whatever the limit and however many items completed before
C28_AcceptedItemIsDispatched ==
    \A n \in 1..MaxIds : Accepted(Uuid(n)) ~> Dispatched(Uuid(n))

\* the copy operation of this id waits in the copy queue
CopyAccepted(id) == \E i \in DOMAIN copy_queue : copy_queue[i].id = id

\* the copy operation of this id has its record: it was started
CopyStarted(id) ==
    \E i \in DOMAIN running_copy_operations : running_copy_operations[i].id = id

\* C29: with fair pools whose copy runs all end, and without shutdown, every
\* copy operation add_copy_operations accepted is started in the end, also
\* under the default limit of one and however many completed before it
C29_AcceptedCopyIsStarted ==
    \A n \in 1..MaxIds : CopyAccepted(Uuid(n)) ~> CopyStarted(Uuid(n))


(***************************************************************************)
(* The promise about shutdown and restart (RestartSpec).                   *)
(***************************************************************************)
\* the worker runs a life of the process started on items it restored
RestoredRuns == {i \in DOMAIN popLog : popLog[i].id[1] = "restored-"}

\* the ids of the items the checkpoint of this shutdown holds as pending
CheckpointedPending ==
    {saved.committed.q[k].id : k \in DOMAIN saved.committed.q}

\* C30: what the shutdown checkpoint holds is processed once: after it is
\* written the exiting process dispatches none of its pending items, and a
\* record it holds as RUNNING whose run ends during the drain wait is not
\* processed again by the process that restores the checkpoint
C30_ProcessedOnceAcrossRestart ==
    /\ (phase \in {"sd_wait", "sd_logout"} /\ HasStep(shutdown_log, "checkpoint"))
           => \A i \in DOMAIN popLog : popLog[i].id \notin CheckpointedPending
    /\ shutdown_log.steps = << >>
           => \A i \in RestoredRuns :
                  popLog[i].id \notin {RestoredId(p) : p \in shutdown_log.finished}



(***************************************************************************)
(* The Relocator's promises about the torrent it paused (RelocSpec).       *)
(***************************************************************************)
\* C31: a Relocator run of either variant that paused a running torrent has
\* resumed it when it returns, whatever it returns: success, copy failure,
\* safety-check failure, delete failure or exception
C31_PausedTorrentResumed ==
    (reloc.pc = "done" /\ reloc.was_started) => ~reloc.paused


(***************************************************************************)
(* The promise of the pass about the library links (SpaceSpec).            *)
(***************************************************************************)
\* C32: in import-script mode no run the pass makes on a torrent, neither
\* the stream-aware one that rewrote only some of the symbolic links nor the
\* plain one called after it returned "error", deletes the cache data while
\* a symbolic link of the library still points into it
C32_NoDeleteUnderALibraryLink ==
    (space.pc # "idle" /\ space.import_mode /\ reloc.pc # "none" /\ reloc.deleted)
        => reloc.symlinks = 0


(***************************************************************************)
(* The Relocator's promises about the tags it removes (RelocSpec).         *)
(***************************************************************************)
\* C33: the cache-tag of a torrent goes only in a step of a Relocator run
\* after which nothing is at the cache path, so a run whose delete failed or
\* was aborted leaves the cache-tag; and the bulk-tag is never removed
C33_CacheTagGoesOnlyAfterDelete ==
    [][/\ (reloc.ssd_tag /\ ~reloc'.ssd_tag) => ~reloc'.src.exists
       /\ reloc.hdd_tag => reloc'.hdd_tag]_vars

\* a run has deleted the cache copy and removed the cache-tag
C33_CacheTagRemoved ==
    reloc.pc = "done" /\ reloc.deleted /\ ~reloc.ssd_tag /\ reloc.tagging


\* C34: a Relocator run of either variant that returned failure has left
\* the location of the torrent in the client as it was: the client never
\* points at the bulk directory after a failed run
C34_FailedRunKeepsLocation ==
    (reloc.pc = "done" /\ reloc.result \notin {"True", "success"})
        => reloc.location = "cache"


(***************************************************************************)
(* The Finisher's promises about its copy attempts (FinisherSpec).         *)
(***************************************************************************)
\* max(1, config.COPY_RETRY_ATTEMPTS)
max_attempts == IF COPY_RETRY_ATTEMPTS > 1 THEN COPY_RETRY_ATTEMPTS ELSE 1

\* C35, the states: no run makes more than max(1, retry_attempts) copy
\* attempts
AttemptsWithinLimit ==
    \A r \in DOMAIN fin.runs :
        fin.runs[r].copies <= max_attempts /\ fin.runs[r].attempt <= max_attempts

\* C35, the steps of run r: an attempt after the first begins with the
\* removal of what is at the destination; a run whose copy verified copies no
\* more; and a run of which every attempt failed returns failure, leaves
\* nothing at the destination and adds no bulk-tag
AttemptSteps(r) ==
    /\ (/\ fin.runs[r].pc = "copy" /\ fin'.runs[r].pc = "copying"
        /\ fin.runs[r].attempt > 1 /\ fin.dst.exists)
           => fin'.runs[r].cleanups = fin.runs[r].cleanups + 1
    /\ fin.runs[r].copy_verified => fin'.runs[r].copies = fin.runs[r].copies
    /\ (fin.runs[r].pc = "failed" /\ fin'.runs[r].pc = "done")
           => /\ fin'.runs[r].result = "False"
              /\ ~fin'.dst.exists
              /\ fin'.hdd_tag = fin.hdd_tag

TierTags ==
    IF reloc.pc \in {"none", "returned"}
    THEN [ssd |-> fin.ssd_tag, hdd |-> fin.hdd_tag]
    ELSE [ssd |-> reloc.ssd_tag, hdd |-> fin.hdd_tag]

\* whether a pause, a resume or a set-location was sent in this step of the
\* Relocator
CommandSent ==
    /\ reloc.pc \notin {"none", "returned"}
    /\ reloc'.pc \notin {"none", "returned"}
    /\ \/ reloc'.paused # reloc.paused
       \/ reloc'.location # reloc.location

\* C36: with dry-run on, no step of a Finisher run or of a Relocator run
\* changes what is on the two tiers, adds or removes a tag of the torrent,
\* or sends a pause, a resume or a set-location to the client
C36_DryRunTouchesNothing ==
    [][fin.dry_run => /\ Tiers' = Tiers
                      /\ TierTags' = TierTags
                      /\ ~CommandSent]_vars


(***************************************************************************)
(* The promise about the reconciliation endpoint (ApiSpec).                *)
(***************************************************************************)
\* the copy operations of this batch, waiting or started
BatchHashes(rco, q, batch_id) ==
    {rco[i].torrent_hash : i \in {k \in DOMAIN rco : rco[k].batch_id = batch_id}}
        \cup {q[i].hash : i \in {k \in DOMAIN q : q[k].batch_id = batch_id}}

\* C37: POST /tags/existing without dry_run, met by torrents of the cache
\* that have a category and no bulk copy, answers 200 with the
\* copy_batch_id of a batch that holds one copy operation for each of them,
\* waiting in the copy queue or started from it
C37_ReconcileQueuesCopies ==
    [][\A list \in CopyLists :
          tag_existing_endpoint(FALSE, list)
              => /\ reply'.status = 200
                 /\ reply'.id # NoId
                 /\ BatchHashes(running_copy_operations', copy_queue', reply'.id)
                        = {list[k] : k \in DOMAIN list}]_vars

\* C38: in the stream-aware Relocator a torrent with no library symlink and
\* at least one legacy hardlink in a library root has a link total above
\* zero: its run is not skipped with the reason no_links
C38_LegacyHardlinkIsALink ==
    (reloc.pc = "done" /\ reloc.variant = "import_script"
        /\ reloc.legacy_hardlinks > 0)
        => reloc.result # "no_links"

\* the pending items whose priority is a number stand in the order of
\* (-priority, queued_time)
SortedByKey(q) ==
    \A i, j \in DOMAIN q :
        (i < j /\ IsNumber(q[i].priority) /\ IsNumber(q[j].priority))
            => KeyLE(q[i], q[j])

\* C39: at every dispatch the item popped has the highest priority of the
\* pending items and, among those of its priority, the earliest enqueue
\* time; the pending torrent queue is sorted by (-priority, enqueue time)
\* after every enqueue, restore, pop and clear.
C39_SortedQueuePopsBest ==
    /\ SortedByKey(process_queue)
    /\ \A k \in DOMAIN popLog : \A w \in popLog[k].waiting :
           (IsNumber(popLog[k].priority) /\ IsNumber(w.priority))
               => KeyLE(popLog[k], w)

\* the infohashes of the descriptor that the queue item of this id carries,
\* waiting in the queue or popped from it
HashesOfItem(q, log, id) ==
    {q[i].torrent.hash_v1 : i \in {k \in DOMAIN q : q[k].id = id}}
        \cup {log[i].hash : i \in {k \in DOMAIN log : log[k].id = id}}

\* C40: the descriptor enqueued by POST /notify/torrent-finished carries
\* exactly the infohash validated in the hash field of the request, also
\* when a params object is supplied.
C40_EnqueuedHashIsNotifiedHash ==
    [][(/\ Admitted("/notify/torrent-finished")
        /\ reply'.op = "notify"
        /\ reply'.status = 200)
       => HashesOfItem(process_queue', popLog', reply'.id)
              = {http.body.data.hash}]_vars

=============================================================================
